---- MODULE Spec2Model ----
(***************************************************************************)
(* PollyPilot paper-trading engine: the portfolio store (server/database)  *)
(* and the trading engine (server/engine) with its three scheduled jobs.   *)
(*                                                                         *)
(* Money, prices, sizes and P&L are exact rationals <<n, d>> (d > 0, in    *)
(* lowest terms), so a lost update or a double credit shows as a wrong     *)
(* number and not as rounding noise.  Probabilities, confidences and       *)
(* quotes enter as integer percents / cents and are converted on use.      *)
(***************************************************************************)
EXTENDS Integers, Sequences, FiniteSets, TLC

(***************************************************************************)
(* Bounds of the model.                                                    *)
(***************************************************************************)
\* positions the ledger may hold
MaxTrades == 2
\* items (headline-market pairs, candidate markets) a job run works through
MaxItems == 1
\* effective engine starts
MaxStarts == 1
\* operations of the store-level driver (SpecStore)
MaxOps == 4
\* how far the wall clock runs, in seconds
MaxTime == 660

(***************************************************************************)
(* Exact rational arithmetic.                                              *)
(***************************************************************************)
Abs(x) == IF x < 0 THEN -x ELSE x

RECURSIVE GCD(_, _)
GCD(a, b) == IF b = 0 THEN a ELSE GCD(b, a % b)

Norm(n, d) ==
    LET g == GCD(Abs(n), Abs(d))
        s == IF d < 0 THEN -1 ELSE 1
    IN  <<(s * n) \div g, (s * d) \div g>>

R(n, d) == Norm(n, d)
Zero == <<0, 1>>
One == <<1, 1>>
Pct(c) == Norm(c, 100)

RAdd(x, y) == Norm(x[1] * y[2] + y[1] * x[2], x[2] * y[2])
RSub(x, y) == Norm(x[1] * y[2] - y[1] * x[2], x[2] * y[2])
RMul(x, y) == Norm(x[1] * y[1], x[2] * y[2])
RDiv(x, y) == Norm(x[1] * y[2], x[2] * y[1])
RLt(x, y) == x[1] * y[2] < y[1] * x[2]
RLe(x, y) == x[1] * y[2] <= y[1] * x[2]
RMin(x, y) == IF RLe(x, y) THEN x ELSE y
RMax(x, y) == IF RLe(x, y) THEN y ELSE x

\* round(x, n) for n = log10(scale): nearest multiple of 1/scale, ties to even
Round(x, scale) ==
    LET s == x[1] * scale
        q == s \div x[2]
        r == s % x[2]
        up == \/ 2 * r > x[2]
              \/ (2 * r = x[2] /\ q % 2 = 1)
    IN  Norm(IF up THEN q + 1 ELSE q, scale)

Round4(x) == Round(x, 10000)
Round2(x) == Round(x, 100)

(***************************************************************************)
(* The identifiers of the program.                                         *)
(***************************************************************************)
Jobs == {"sniper", "researcher", "price_updater"}
Strategies == {"sniper", "researcher"}

\* the starting balance of a fresh portfolio row, in dollars
InitialBalance == 100

VARIABLES
    balance,      \* portfolio.balance
    total_pnl,    \* portfolio.total_pnl
    trades,       \* the trades table, in id order (id = index)
    logs,         \* the rows (levels) the last step appended to the logs table
    settings,     \* the settings table
    running,      \* TradingEngine.running
    start_time,   \* TradingEngine._start_time: 0 = None, else the start's ordinal
    jobs,         \* job ids the scheduler holds
    instances,    \* runs in flight per job id, as the executor counts them
    pc,           \* where each job's run stands
    loc,          \* the locals of each job's run
    nops,         \* operations the store-level driver has performed
    now,          \* the wall clock, in seconds
    next_run_time, \* per job id, when the scheduler is to fire it next
    calc,         \* the call of the risk engine under study: arguments, result
    closes,       \* history: the close_trade calls made, as [trade_id, exit_price]
    _processed_hashes, \* NewsFetcher._processed_hashes
    cycle,        \* the sniper's run over its headlines: its ordinal, its locals
    evaluated,    \* history: <<hash, run>> of each headline handed to the matcher
                  \* since the hash cache was last reset
    survey,       \* the researcher's run over its candidates: ordinal, locals
    lock          \* Database._lock: the job inside a `with self._lock`, or "free"

vars == <<balance, total_pnl, trades, logs, settings, running, start_time,
          jobs, instances, pc, loc, nops, now, next_run_time, calc,
          closes, _processed_hashes, cycle, evaluated, survey, lock>>

store == <<balance, total_pnl, trades>>
engine == <<running, start_time, jobs, instances, pc, loc>>
clock == <<now, next_run_time>>
tallies == <<_processed_hashes, cycle, evaluated, survey, lock>>

(***************************************************************************)
(* Inputs the gateways and the operator can supply.                        *)
(***************************************************************************)
\* Gamma markets: id, clobTokenIds as parsed (m2 carries none)
Markets == {"m1", "m2"}
Tokens(m) == IF m = "m1" THEN <<"y1", "n1">> ELSE <<>>
\* what one evaluation can be handed: the estimator's answer (absent when has is
\* FALSE; probability and confidence in percent), outcomePrices as (yes, no) in
\* cents, and endDateIso as days ahead of now (or absent)
NoEnd == [kind |-> "absent", days |-> 0]
InDays(n) == [kind |-> "date", days |-> n]
\* an end date written without a UTC offset ("2030-01-01"), n days ahead
NaiveInDays(n) == [kind |-> "naive", days |-> n]
\* an end date fromisoformat cannot read
Unparsable == [kind |-> "unparsable", days |-> 0]
Signal(has, p, c, sd, q, e) ==
    [has |-> has, analysis |-> [probability |-> p, confidence |-> c, side |-> sd],
     quote |-> q, end |-> e]
Signals ==
    { Signal(FALSE, 50, 0, "YES", <<50, 50>>, NoEnd),
      Signal(TRUE, 70, 90, "YES", <<50, 50>>, NoEnd),
      Signal(TRUE, 70, 5, "YES", <<50, 50>>, NoEnd),
      Signal(TRUE, 30, 90, "YES", <<50, 50>>, NoEnd),
      Signal(TRUE, 70, 90, "YES", <<20, 80>>, InDays(45)),
      Signal(TRUE, 90, 90, "NO", <<85, 15>>, InDays(10)) }
\* CLOB midpoints in cents
Mids == {10, 70}
\* bodies of POST /settings
SettingsUpdates ==
    { [mode |-> "moonshot", allow_shorting |-> TRUE, risk_multiplier |-> 30],
      [mode |-> "balanced", max_days |-> 30, allow_shorting |-> FALSE,
       risk_multiplier |-> 10] }

(***************************************************************************)
(* Risk engine (pure functions of engine.py).                              *)
(***************************************************************************)
\* the Kelly fraction without the final clamp into [0, 0.5]
KellyUnclamped(p, market_price) ==
    IF RLe(market_price, Zero) \/ RLe(One, market_price) THEN Zero
    ELSE LET b == RSub(RDiv(One, market_price), One)
         IN  RDiv(RSub(RMul(b, p), RSub(One, p)), b)

_calculate_kelly(p, market_price) ==
    IF RLe(market_price, Zero) \/ RLe(One, market_price) THEN Zero
    ELSE LET b == RSub(RDiv(One, market_price), One)
             q == RSub(One, p)
         IN  IF RLe(b, Zero) THEN Zero
             ELSE LET f_star == RDiv(RSub(RMul(b, p), q), b)
                  IN  RMax(Zero, RMin(f_star, R(1, 2)))

\* Variants of the risk filter that differ from the code in one place:
\* "strict" rejects the boundary values of grind and balanced, "gated" makes
\* moonshot ask for confidence >= 70 too, "uncapped" leaves out the final cap.
FilterVariant(v, confidence, edge, market_price, ai_prob, mode, risk_mult) ==
    LET kelly == _calculate_kelly(ai_prob, market_price)
        no == [ok |-> FALSE, size |-> Zero]
        scaled(cap) == RMul(RMin(kelly, cap), risk_mult)
        sized(cap) == [ok |-> TRUE,
                       size |-> IF v = "uncapped" THEN scaled(cap)
                                ELSE RMin(scaled(cap), cap)]
        below(x, limit) == IF v = "strict" THEN RLe(x, limit) ELSE RLt(x, limit)
    IN  CASE mode = "grind" ->
               IF below(R(confidence, 1), R(85, 1)) \/ below(edge, R(4, 1))
               THEN no ELSE sized(R(5, 100))
          [] mode = "balanced" ->
               IF below(R(confidence, 1), R(70, 1)) \/ below(edge, R(8, 1))
               THEN no ELSE sized(R(15, 100))
          [] mode = "moonshot" ->
               IF v = "gated" /\ confidence < 70 THEN no
               ELSE IF RLt(R(20, 100), market_price) THEN no
               ELSE IF RLt(ai_prob, RMul(market_price, R(2, 1))) THEN no
               ELSE sized(R(25, 100))
          [] OTHER -> no

FilterStrict(confidence, edge, market_price, ai_prob, mode, risk_mult) ==
    FilterVariant("strict", confidence, edge, market_price, ai_prob, mode,
                  risk_mult)

FilterGated(confidence, edge, market_price, ai_prob, mode, risk_mult) ==
    FilterVariant("gated", confidence, edge, market_price, ai_prob, mode,
                  risk_mult)

FilterUncapped(confidence, edge, market_price, ai_prob, mode, risk_mult) ==
    FilterVariant("uncapped", confidence, edge, market_price, ai_prob, mode,
                  risk_mult)

\* returns [ok, size]: (should_trade, position_size_pct)
_apply_risk_filter(confidence, edge, market_price, ai_prob, mode, risk_mult) ==
    LET kelly == _calculate_kelly(ai_prob, market_price)
        no == [ok |-> FALSE, size |-> Zero]
        sized(cap) == [ok |-> TRUE,
                       size |-> RMin(RMul(RMin(kelly, cap), risk_mult), cap)]
    IN  CASE mode = "grind" ->
               IF confidence < 85 \/ RLt(edge, R(4, 1)) THEN no
               ELSE sized(R(5, 100))
          [] mode = "balanced" ->
               IF confidence < 70 \/ RLt(edge, R(8, 1)) THEN no
               ELSE sized(R(15, 100))
          [] mode = "moonshot" ->
               IF RLt(R(20, 100), market_price) THEN no
               ELSE IF RLt(ai_prob, RMul(market_price, R(2, 1))) THEN no
               ELSE sized(R(25, 100))
          [] OTHER -> no

\* An absent date is allowed.  A date with an offset is compared with now +
\* max_days.  A date without an offset parses to a naive datetime, whose
\* comparison with the aware max_date raises TypeError: allowed by the except
\* clause, as is a string that does not parse (ValueError).
_check_time_horizon(end, max_days) ==
    IF end.kind = "absent" THEN TRUE
    ELSE IF end.kind = "date" THEN end.days <= max_days
    ELSE IF end.kind = "naive" THEN TRUE
    ELSE TRUE

\* Variants of the decision that differ from the code in one place:
\* "no_redirect" keeps a NO recommendation on the NO side when shorting is
\* off; "mirrored" takes the NO edge from the YES price, (yes_price - p) * 100.
DecideVariant(v, analysis, quote, end, st) ==
    LET ai_prob == Pct(analysis.probability)
        yes_price == Pct(quote[1])
        no_price == Pct(quote[2])
        allow_shorting == (st.allow_shorting = "true") \/ v = "no_redirect"
        asYes == analysis.side = "YES" \/ ~allow_shorting
        market_price == IF asYes THEN yes_price ELSE no_price
        edge == IF asYes
                THEN RMul(RSub(ai_prob, market_price), R(100, 1))
                ELSE IF v = "mirrored"
                THEN RMul(RSub(yes_price, ai_prob), R(100, 1))
                ELSE RMul(RSub(RSub(One, ai_prob), no_price), R(100, 1))
        f == _apply_risk_filter(analysis.confidence, edge, market_price, ai_prob,
                                st.mode, R(st.risk_multiplier, 10))
    IN  [verdict |-> IF analysis.confidence < 10 THEN "skip"
                     ELSE IF ~_check_time_horizon(end, st.max_days) THEN "skip"
                     ELSE IF ~f.ok THEN "filtered"
                     ELSE "trade",
         side |-> IF asYes THEN "YES" ELSE "NO", market_price |-> market_price,
         edge |-> edge, size_pct |-> f.size, confidence |-> analysis.confidence,
         mode |-> st.mode]

DecideNoRedirect(analysis, quote, end, st) ==
    DecideVariant("no_redirect", analysis, quote, end, st)

DecideMirroredEdge(analysis, quote, end, st) ==
    DecideVariant("mirrored", analysis, quote, end, st)

\* The decision part of _execute_trade_decision, up to the risk filter:
\* [verdict, side, market_price, edge, size_pct, confidence, mode], with verdict
\* "skip" (returns False silently), "filtered" (SIGNAL log) or "trade".
Decide(analysis, quote, end, st) ==
    LET ai_prob == Pct(analysis.probability)
        confidence == analysis.confidence
        yes_price == Pct(quote[1])
        no_price == Pct(quote[2])
        mode == st.mode
        allow_shorting == (st.allow_shorting = "true")
        risk_mult == R(st.risk_multiplier, 10)
        asYes == analysis.side = "YES" \/ ~allow_shorting
        side == IF asYes THEN "YES" ELSE "NO"
        market_price == IF asYes THEN yes_price ELSE no_price
        edge == IF asYes
                THEN RMul(RSub(ai_prob, market_price), R(100, 1))
                ELSE RMul(RSub(RSub(One, ai_prob), no_price), R(100, 1))
        f == _apply_risk_filter(confidence, edge, market_price, ai_prob, mode,
                                risk_mult)
        verdict == IF confidence < 10 THEN "skip"
                   ELSE IF ~_check_time_horizon(end, st.max_days) THEN "skip"
                   ELSE IF ~f.ok THEN "filtered"
                   ELSE "trade"
    IN  [verdict |-> verdict, side |-> side, market_price |-> market_price,
         edge |-> edge, size_pct |-> f.size, confidence |-> confidence,
         mode |-> mode]

\* the token whose price the position tracks
TokenFor(side, tokens) ==
    IF side = "YES"
    THEN IF Len(tokens) > 0 THEN tokens[1] ELSE ""
    ELSE IF Len(tokens) > 1 THEN tokens[2]
         ELSE IF Len(tokens) > 0 THEN tokens[1] ELSE ""

Min(a, b) == IF a < b THEN a ELSE b

(***************************************************************************)
(* Headline matcher (_match_headline_to_markets).  A string is the         *)
(* sequence of its characters.                                             *)
(***************************************************************************)
Alphabet ==
    <<"a", "b", "c", "d", "e", "f", "g", "h", "i", "j", "k", "l", "m", "n", "o",
      "p", "q", "r", "s", "t", "u", "v", "w", "x", "y", "z">>
Capitals ==
    <<"A", "B", "C", "D", "E", "F", "G", "H", "I", "J", "K", "L", "M", "N", "O",
      "P", "Q", "R", "S", "T", "U", "V", "W", "X", "Y", "Z">>
Digits == {"0", "1", "2", "3", "4", "5", "6", "7", "8", "9"}

\* str.lower()
lower(str) ==
    [i \in 1..Len(str) |->
        IF \E k \in 1..26 : Capitals[k] = str[i]
        THEN Alphabet[CHOOSE k \in 1..26 : Capitals[k] = str[i]]
        ELSE str[i]]

\* the classes of the pattern \b[a-zA-Z]{3,}\b: [a-zA-Z], and \w for \b
IsLetter(c) == \E k \in 1..26 : Alphabet[k] = c \/ Capitals[k] = c
IsWordChar(c) == IsLetter(c) \/ c \in Digits \/ c = "_"

\* the maximal runs of \w characters of a string, in order
RECURSIVE WordRuns(_, _)
WordRuns(str, run) ==
    IF str = <<>> THEN (IF run = <<>> THEN <<>> ELSE <<run>>)
    ELSE IF IsWordChar(Head(str)) THEN WordRuns(Tail(str), Append(run, Head(str)))
    ELSE (IF run = <<>> THEN <<>> ELSE <<run>>) \o WordRuns(Tail(str), <<>>)

\* re.findall(r'\b[a-zA-Z]{3,}\b', str): a match starts and ends at a word
\* boundary, so it is a whole run of \w characters, all letters, 3 or more
findall(str) ==
    SelectSeq(WordRuns(str, <<>>),
              LAMBDA w : Len(w) >= 3 /\ \A i \in 1..Len(w) : IsLetter(w[i]))

STOP_WORDS ==
    {<<"a">>, <<"a", "n">>, <<"t", "h", "e">>, <<"a", "n", "d">>,
      <<"o", "r">>, <<"b", "u", "t">>, <<"i", "n">>, <<"o", "n">>,
      <<"a", "t">>, <<"t", "o">>, <<"f", "o", "r">>, <<"o", "f">>,
      <<"w", "i", "t", "h">>, <<"b", "y">>, <<"f", "r", "o", "m">>,
      <<"a", "s">>, <<"i", "s">>, <<"w", "a", "s">>, <<"a", "r", "e">>,
      <<"w", "e", "r", "e">>, <<"b", "e", "e", "n">>, <<"b", "e">>,
      <<"h", "a", "v", "e">>, <<"h", "a", "s">>, <<"h", "a", "d">>,
      <<"d", "o">>, <<"d", "o", "e", "s">>, <<"d", "i", "d">>,
      <<"w", "i", "l", "l">>, <<"w", "o", "u", "l", "d">>,
      <<"c", "o", "u", "l", "d">>, <<"s", "h", "o", "u", "l", "d">>,
      <<"m", "a", "y">>, <<"m", "i", "g", "h", "t">>, <<"m", "u", "s", "t">>,
      <<"s", "h", "a", "l", "l">>, <<"c", "a", "n">>, <<"n", "e", "e", "d">>,
      <<"d", "a", "r", "e">>, <<"o", "u", "g", "h", "t">>,
      <<"u", "s", "e", "d">>, <<"i", "t">>, <<"i", "t", "s">>,
      <<"t", "h", "i", "s">>, <<"t", "h", "a", "t">>,
      <<"t", "h", "e", "s", "e">>, <<"t", "h", "o", "s", "e">>, <<"i">>,
      <<"y", "o", "u">>, <<"h", "e">>, <<"s", "h", "e">>, <<"w", "e">>,
      <<"t", "h", "e", "y">>, <<"w", "h", "a", "t">>,
      <<"w", "h", "i", "c", "h">>, <<"w", "h", "o">>, <<"w", "h", "o", "m">>,
      <<"w", "h", "o", "s", "e">>, <<"w", "h", "e", "r", "e">>,
      <<"w", "h", "e", "n">>, <<"w", "h", "y">>, <<"h", "o", "w">>,
      <<"a", "l", "l">>, <<"e", "a", "c", "h">>, <<"e", "v", "e", "r", "y">>,
      <<"b", "o", "t", "h">>, <<"f", "e", "w">>, <<"m", "o", "r", "e">>,
      <<"m", "o", "s", "t">>, <<"o", "t", "h", "e", "r">>,
      <<"s", "o", "m", "e">>, <<"s", "u", "c", "h">>, <<"n", "o">>,
      <<"n", "o", "r">>, <<"n", "o", "t">>, <<"o", "n", "l", "y">>,
      <<"o", "w", "n">>, <<"s", "a", "m", "e">>, <<"s", "o">>,
      <<"t", "h", "a", "n">>, <<"t", "o", "o">>, <<"v", "e", "r", "y">>,
      <<"j", "u", "s", "t">>, <<"a", "l", "s", "o">>, <<"n", "o", "w">>,
      <<"h", "e", "r", "e">>, <<"t", "h", "e", "r", "e">>,
      <<"t", "h", "e", "n">>, <<"o", "n", "c", "e">>,
      <<"a", "g", "a", "i", "n">>, <<"f", "u", "r", "t", "h", "e", "r">>,
      <<"s", "t", "i", "l", "l">>, <<"a", "l", "r", "e", "a", "d", "y">>,
      <<"n", "e", "w">>, <<"s", "a", "y", "s">>, <<"s", "a", "i", "d">>,
      <<"a", "f", "t", "e", "r">>, <<"b", "e", "f", "o", "r", "e">>,
      <<"o", "v", "e", "r">>, <<"u", "n", "d", "e", "r">>,
      <<"b", "e", "t", "w", "e", "e", "n">>, <<"i", "n", "t", "o">>,
      <<"t", "h", "r", "o", "u", "g", "h">>,
      <<"d", "u", "r", "i", "n", "g">>, <<"a", "b", "o", "v", "e">>,
      <<"b", "e", "l", "o", "w">>, <<"u", "p">>, <<"d", "o", "w", "n">>,
      <<"o", "u", "t">>, <<"o", "f", "f">>, <<"a", "b", "o", "u", "t">>,
      <<"a", "g", "a", "i", "n", "s", "t">>,
      <<"r", "e", "p", "o", "r", "t">>,
      <<"r", "e", "p", "o", "r", "t", "s">>,
      <<"a", "c", "c", "o", "r", "d", "i", "n", "g">>,
      <<"n", "e", "w", "s">>, <<"u", "p", "d", "a", "t", "e">>,
      <<"u", "p", "d", "a", "t", "e", "s">>}

\* kw in question
Contains(kw, question) ==
    \E i \in 1..(Len(question) - Len(kw) + 1) :
        SubSeq(question, i, i + Len(kw) - 1) = kw

\* line 656: the first 5 tokens that are not stop words
Keywords(headline) ==
    LET words == findall(lower(headline))
        kept == SelectSeq(words, LAMBDA w : w \notin STOP_WORDS)
    IN  SubSeq(kept, 1, Min(5, Len(kept)))

\* line 665: how many of the keywords the question holds
Score(keywords, question) ==
    Cardinality({k \in 1..Len(keywords) : Contains(keywords[k], lower(question))})

\* a sort that puts an entry before the earlier entries of the same score
RECURSIVE SortTiesReversed(_)
SortTiesReversed(scored) ==
    IF scored = <<>> THEN <<>>
    ELSE LET x == scored[Len(scored)]
             done == SortTiesReversed(SubSeq(scored, 1, Len(scored) - 1))
             n == Cardinality({i \in 1..Len(done) : done[i][1] > x[1]})
         IN  SubSeq(done, 1, n) \o <<x>> \o SubSeq(done, n + 1, Len(done))

\* scored.sort(key=lambda x: x[0], reverse=True): descending by score, stable
\* (an entry goes after the earlier entries of the same score)
RECURSIVE SortDescending(_)
SortDescending(scored) ==
    IF scored = <<>> THEN <<>>
    ELSE LET x == scored[Len(scored)]
             done == SortDescending(SubSeq(scored, 1, Len(scored) - 1))
             n == Cardinality({i \in 1..Len(done) : done[i][1] >= x[1]})
         IN  SubSeq(done, 1, n) \o <<x>> \o SubSeq(done, n + 1, Len(done))

\* lines 662-667: the (score, market) pairs of the markets that score
RECURSIVE Scored(_, _, _)
Scored(keywords, markets, i) ==
    IF i > Len(markets) THEN <<>>
    ELSE (IF Score(keywords, markets[i]) > 0
          THEN <<<<Score(keywords, markets[i]), i>>>> ELSE <<>>)
         \o Scored(keywords, markets, i + 1)

\* The matched markets, as their places in `markets` (a market is its
\* question text).
_match_headline_to_markets(headline, markets) ==
    LET keywords == Keywords(headline)
        scored == SortDescending(Scored(keywords, markets, 1))
    IN  IF keywords = <<>> THEN <<>>
        ELSE [k \in 1..Min(5, Len(scored)) |-> scored[k][2]]

(***************************************************************************)
(* Portfolio store (database.py): the effect of each statement.            *)
(***************************************************************************)
DefaultSettings ==
    [mode |-> "balanced", max_days |-> 30, allow_shorting |-> "false",
     risk_multiplier |-> 10]

\* add_log: n more rows of that level
add_log(l, level, n) == l \o [i \in 1..n |-> level]

\* the row add_trade inserts: pnl and status take the column defaults
add_trade(trade) ==
    Append(trades,
           [market_id |-> trade.market_id, side |-> trade.side,
            entry_price |-> trade.entry_price,
            current_price |-> trade.current_price, size |-> trade.size,
            pnl |-> Zero, status |-> "open", strategy |-> trade.strategy,
            confidence |-> trade.confidence, edge |-> trade.edge,
            mode |-> trade.mode, token_id |-> trade.token_id])

\* a record whose size column holds the dollars spent, not the tokens bought
TradeDictInDollars(market, d, trade_size_dollars, strategy) ==
    [market_id |-> market, side |-> d.side,
     entry_price |-> d.market_price, current_price |-> d.market_price,
     size |-> trade_size_dollars,
     strategy |-> strategy, confidence |-> d.confidence,
     edge |-> Round2(d.edge),
     mode |-> d.mode, token_id |-> TokenFor(d.side, Tokens(market))]

\* the dict _execute_trade_decision records for an approved, debited trade
TradeDict(market, d, trade_size_dollars, strategy) ==
    [market_id |-> market, side |-> d.side,
     entry_price |-> d.market_price, current_price |-> d.market_price,
     size |-> IF RLt(Zero, d.market_price)
              THEN RDiv(trade_size_dollars, d.market_price) ELSE Zero,
     strategy |-> strategy, confidence |-> d.confidence,
     edge |-> Round2(d.edge),
     mode |-> d.mode, token_id |-> TokenFor(d.side, Tokens(market))]

\* a refresh that also writes the status column back to open
update_trade_reopening(trade_id, current_price, pnl) ==
    IF trade_id \in DOMAIN trades
    THEN [trades EXCEPT ![trade_id].current_price = current_price,
                        ![trade_id].pnl = pnl,
                        ![trade_id].status = "open"]
    ELSE trades

\* update_trade(trade_id, {"current_price": .., "pnl": ..}): no check of status
update_trade(trade_id, current_price, pnl) ==
    IF trade_id \in DOMAIN trades
    THEN [trades EXCEPT ![trade_id].current_price = current_price,
                        ![trade_id].pnl = pnl]
    ELSE trades

\* a refresh that adds the new difference to the P&L already stored
AccumulatedPnl(trade, new_price) ==
    Round4(RAdd(trade.pnl, RMul(RSub(new_price, trade.entry_price), trade.size)))

\* the refresh the price updater writes for a position it listed as open
RefreshPnl(trade, new_price) ==
    Round4(RMul(RSub(new_price, trade.entry_price), trade.size))

\* a P&L that forgets the cost
GrossPnl(trade, exit_price) == RMul(exit_price, trade.size)

\* close_trade: pnl, the closing UPDATE, the credit
ClosePnl(trade, exit_price) ==
    RMul(RSub(exit_price, trade.entry_price), trade.size)

CloseRow(trade_id, exit_price) ==
    [trades EXCEPT ![trade_id].status = "closed",
                   ![trade_id].current_price = exit_price,
                   ![trade_id].pnl = Round4(ClosePnl(trades[trade_id], exit_price))]

\* a credit of the profit alone
ProfitOnly(trade, exit_price) == ClosePnl(trade, exit_price)

\* what close_trade adds to the balance
SaleProceeds(trade, exit_price) == RMul(exit_price, trade.size)

\* a debit that checks nothing
Unchecked(read_balance, amount) == FALSE

\* deduct_from_balance's check on the balance it read
Insufficient(read_balance, amount) == RLt(read_balance, amount)

\* no decision in hand
NoDecision ==
    [verdict |-> "none", side |-> "YES", market_price |-> Zero, edge |-> Zero,
     size_pct |-> Zero, confidence |-> 0, mode |-> "balanced"]

\* no call under study
NoCall == [fn |-> "none"]

\* the sniper before any run over headlines: no run begun, nothing in hand
NoCycle ==
    [run |-> 0, news_items |-> <<>>, matched |-> 0, calls |-> 0,
     trades_made |-> 0, opened_before |-> 0]

\* the researcher before any run over candidates
NoSurvey ==
    [run |-> 0, candidate_markets |-> <<>>, researched |-> <<>>,
     trades_made |-> 0, opened_before |-> 0]

\* a run's locals before it has read anything
IdleLoc ==
    [left |-> 0, cands |-> <<>>, snap |-> <<>>, market |-> "", d |-> NoDecision,
     amount |-> Zero, new_balance |-> Zero, new_total |-> Zero]

Init ==
    /\ balance = R(InitialBalance, 1)
    /\ total_pnl = Zero
    /\ trades = <<>>
    /\ logs = <<>>
    /\ settings = DefaultSettings
    /\ running = FALSE
    /\ start_time = 0
    /\ jobs = {}
    /\ instances = [j \in Jobs |-> 0]
    /\ pc = [j \in Jobs |-> "idle"]
    /\ loc = [j \in Jobs |-> IdleLoc]
    /\ nops = 0
    /\ now = 0
    /\ next_run_time = [j \in Jobs |-> 0]
    /\ calc = NoCall
    /\ closes = <<>>
    /\ _processed_hashes = {}
    /\ cycle = NoCycle
    /\ evaluated = {}
    /\ survey = NoSurvey
    /\ lock = "free"

(***************************************************************************)
(* SpecStore: the store's operations called one at a time, each running to *)
(* completion, with any arguments (so also a close of a closed position).  *)
(***************************************************************************)
StoreAmounts == {R(10, 1), R(60, 1)}
StorePrices == {Pct(20), Pct(50), Pct(60)}

\* deduct_from_balance(amount), then add_trade: the open of engine.py 936-979
StoreOpen(market, side, price, amount) ==
    /\ nops < MaxOps
    /\ Len(trades) < MaxTrades
    /\ nops' = nops + 1
    /\ IF Insufficient(balance, amount)
       THEN /\ logs' = add_log(<<>>, "WARN", 1)
            /\ UNCHANGED <<balance, trades, tallies>>
       ELSE /\ balance' = RSub(balance, amount)
            /\ trades' = add_trade(
                   TradeDict(market,
                             [side |-> side, market_price |-> price,
                              confidence |-> 90, edge |-> R(20, 1),
                              mode |-> settings.mode],
                             amount, "sniper"))
            /\ logs' = add_log(<<>>, "TRADE", 1)
    /\ UNCHANGED <<total_pnl, settings, engine, calc, clock, closes, tallies>>

\* Database.close_trade(trade_id, exit_price), alone
StoreClose(trade_id, exit_price) ==
    /\ nops < MaxOps
    /\ nops' = nops + 1
    /\ IF trade_id \in DOMAIN trades
       THEN /\ trades' = CloseRow(trade_id, exit_price)
            /\ balance' = RAdd(balance, SaleProceeds(trades[trade_id], exit_price))
            /\ total_pnl' = RAdd(total_pnl, ClosePnl(trades[trade_id], exit_price))
            /\ closes' = Append(closes, [trade_id |-> trade_id,
                                         exit_price |-> exit_price])
       ELSE UNCHANGED <<balance, total_pnl, trades, closes, tallies>>
    /\ logs' = <<>>
    /\ UNCHANGED <<settings, engine, calc, clock, tallies>>

\* the price updater's write for one position, alone
StoreRefresh(trade_id, new_price) ==
    /\ nops < MaxOps
    /\ nops' = nops + 1
    /\ trade_id \in DOMAIN trades
    /\ trades[trade_id].status = "open"
    /\ trades' = update_trade(trade_id, new_price,
                              RefreshPnl(trades[trade_id], new_price))
    /\ logs' = <<>>
    /\ UNCHANGED <<balance, total_pnl, settings, engine, calc, clock, closes, tallies>>

NextStore ==
    \/ \E m \in Markets, sd \in {"YES", "NO"}, p \in StorePrices, a \in StoreAmounts :
           StoreOpen(m, sd, p, a)
    \/ \E i \in 1..(MaxTrades + 1), p \in StorePrices : StoreClose(i, p)
    \/ \E i \in 1..MaxTrades, p \in StorePrices : StoreRefresh(i, p)

SpecStore == Init /\ [][NextStore]_vars

(***************************************************************************)
(* Engine controller (engine.py start/stop, main.py endpoints) and the     *)
(* scheduler as __init__ configures it.                                    *)
(***************************************************************************)
\* job_defaults["max_instances"]
max_instances == 1

\* the seconds= of each add_job
Interval(j) ==
    CASE j = "sniper" -> 30
      [] j = "researcher" -> 600
      [] j = "price_updater" -> 60

\* a start without the modify_job of its last line: every job waits its interval
start_all_wait ==
    /\ ~running
    /\ start_time < MaxStarts
    /\ running' = TRUE
    /\ start_time' = start_time + 1
    /\ jobs' = Jobs
    /\ next_run_time' = [j \in Jobs |-> now + Interval(j)]
    /\ logs' = add_log(<<>>, "INFO", 1)
    /\ UNCHANGED <<store, settings, instances, pc, loc, nops, calc, now,
                   closes, tallies>>

\* a start that registers and stamps again when running
start_again ==
    /\ start_time < MaxStarts + 1
    /\ running' = TRUE
    /\ start_time' = start_time + 1
    /\ jobs' = Jobs
    /\ logs' = add_log(<<>>, "WARN", 1)
    /\ UNCHANGED <<store, settings, instances, pc, loc, nops, calc, clock,
                   closes, tallies>>

\* TradingEngine.start()
start ==
    IF running
    THEN /\ logs' = add_log(<<>>, "WARN", 1)
         /\ UNCHANGED <<store, settings, engine, nops, calc, clock, closes, tallies>>
    ELSE /\ start_time < MaxStarts
         /\ running' = TRUE
         /\ start_time' = start_time + 1
         /\ jobs' = {"sniper", "researcher", "price_updater"}
         /\ next_run_time' =
              [j \in Jobs |-> IF j = "sniper" THEN now ELSE now + Interval(j)]
         /\ logs' = add_log(<<>>, "INFO", 1)
         /\ UNCHANGED <<store, settings, instances, pc, loc, nops, calc, now,
                        closes, tallies>>

\* POST /start
start_engine ==
    IF running
    THEN /\ logs' = <<>>
         /\ UNCHANGED <<store, settings, engine, nops, calc, clock, closes, tallies>>
    ELSE start

\* a stop that clears the flag and leaves the schedule firing
stop_keeps_schedule ==
    /\ running
    /\ running' = FALSE
    /\ logs' = add_log(<<>>, "INFO", 1)
    /\ UNCHANGED <<store, settings, start_time, jobs, instances, pc, loc,
                   nops, calc, clock,
                   closes, tallies>>

\* TradingEngine.stop(), which returns at once when not running;
\* shutdown(wait=False) drops the schedule, not the runs in flight
stop ==
    /\ running
    /\ running' = FALSE
    /\ jobs' = {}
    /\ logs' = add_log(<<>>, "INFO", 1)
    /\ UNCHANGED <<store, settings, start_time, instances, pc, loc, nops,
                   calc, clock, closes, tallies>>

\* POST /settings
update_settings(updates) ==
    /\ settings' =
         [k \in DOMAIN settings |->
            IF k \in DOMAIN updates
            THEN IF k = "allow_shorting"
                 THEN (IF updates[k] THEN "true" ELSE "false")
                 ELSE updates[k]
            ELSE settings[k]]
    /\ logs' = add_log(<<>>, "INFO", 1)
    /\ UNCHANGED <<store, engine, nops, calc, clock, closes, tallies>>

\* a scheduler that submits whatever is in flight
SubmitUnbounded(j) == j \in jobs

\* the scheduler fires a job it holds: the run is submitted unless
\* max_instances runs of the job are in flight, in which case the tick is skipped
Submit(j) ==
    /\ j \in jobs
    /\ instances[j] < max_instances

\* a submitted run is in flight, at p with locals l
BeginRun(j, p, l) ==
    /\ instances' = [instances EXCEPT ![j] = @ + 1]
    /\ pc' = [pc EXCEPT ![j] = p]
    /\ loc' = [loc EXCEPT ![j] = l]

\* a run returns to the executor
EndRun(j) ==
    /\ instances' = [instances EXCEPT ![j] = @ - 1]
    /\ pc' = [pc EXCEPT ![j] = "idle"]
    /\ loc' = [loc EXCEPT ![j] = IdleLoc]

\* a failure that takes the scheduler down with the run
FailStops(j, n) ==
    /\ pc[j] # "idle"
    /\ logs' = add_log(<<>>, "ERROR", n)
    /\ jobs' = {}
    /\ running' = FALSE
    /\ UNCHANGED <<store, settings, start_time, instances, pc, loc, nops,
                   calc, clock, closes, tallies>>

\* a failure after which the executor still counts the run as in flight
FailKeepsSlot(j, n) ==
    /\ \/ j = "sniper" /\ pc[j] = "evaluate" /\ loc[j].left > 0
       \/ j = "researcher" /\ pc[j] = "research" /\ loc[j].cands # <<>>
       \/ j = "price_updater" /\ pc[j] = "refresh" /\ n = 1
    /\ logs' = add_log(<<>>, "ERROR", n)
    /\ pc' = [pc EXCEPT ![j] = "idle"]
    /\ loc' = [loc EXCEPT ![j] = IdleLoc]
    /\ UNCHANGED <<store, settings, running, start_time, jobs, instances, nops,
                   calc, clock, closes, tallies>>

\* the except clause of a job: an exception raised by a call of the run (n = 2
\* when the ai property logged it before raising) is logged, the run ends
Fail(j, n) ==
    /\ \/ j = "sniper" /\ pc[j] = "evaluate" /\ loc[j].left > 0
       \/ j = "researcher" /\ pc[j] = "research" /\ loc[j].cands # <<>>
       \/ j = "price_updater" /\ pc[j] = "refresh" /\ n = 1
    /\ logs' = add_log(<<>>, "ERROR", n)
    /\ EndRun(j)
    /\ UNCHANGED <<store, settings, running, start_time, jobs, nops, calc,
                   clock, closes, tallies>>

(***************************************************************************)
(* _execute_trade_decision, statement by statement of the store.           *)
(***************************************************************************)
\* runs between the sizing read and the insert
Opening == {j \in Jobs : pc[j] \in {"deduct", "deduct_write", "add_trade"}}

\* the locals once a decision is dealt with
Cleared(l) ==
    [l EXCEPT !.market = "", !.d = NoDecision, !.amount = Zero,
              !.new_balance = Zero]

\* The item in hand is done, this step having logged `rows`, and the run's
\* locals being `rest`: the job's loop goes on, or (sniper, nothing left) the
\* cycle's closing log of lines 641-645 is written and the run returns.
ItemDone(j, rest, rows) ==
    IF j = "sniper" /\ rest.left = 0
    THEN /\ logs' = add_log(rows, "INFO", 1)
         /\ EndRun(j)
    ELSE /\ logs' = rows
         /\ pc' = [pc EXCEPT ![j] = IF j = "sniper" THEN "evaluate" ELSE "research"]
         /\ loc' = [loc EXCEPT ![j] = rest]
         /\ UNCHANGED instances

\* a decision that drops a filtered candidate without the SIGNAL row
ExecuteSilent(j, market, analysis, quote, end, rest) ==
    LET d == Decide(analysis, quote, end, settings)
        trade_size_dollars == RMul(balance, d.size_pct)
    IN  /\ IF d.verdict = "trade" /\ ~RLt(trade_size_dollars, One)
           THEN /\ Len(trades) + Cardinality(Opening) < MaxTrades
                /\ pc' = [pc EXCEPT ![j] = "deduct"]
                /\ loc' = [loc EXCEPT ![j] =
                             [rest EXCEPT !.market = market, !.d = d,
                                          !.amount = trade_size_dollars]]
                /\ logs' = <<>>
                /\ UNCHANGED instances
           ELSE ItemDone(j, rest, <<>>)
        /\ UNCHANGED <<store, settings, running, start_time, jobs, nops, calc,
                       clock, closes, tallies>>

\* a decision on the settings as they were when the engine was built
ExecuteCached(j, market, analysis, quote, end, rest) ==
    LET d == Decide(analysis, quote, end, DefaultSettings)
        trade_size_dollars == RMul(balance, d.size_pct)
    IN  /\ IF d.verdict = "trade" /\ ~RLt(trade_size_dollars, One)
           THEN /\ Len(trades) + Cardinality(Opening) < MaxTrades
                /\ pc' = [pc EXCEPT ![j] = "deduct"]
                /\ loc' = [loc EXCEPT ![j] =
                             [rest EXCEPT !.market = market, !.d = d,
                                          !.amount = trade_size_dollars]]
                /\ logs' = <<>>
                /\ UNCHANGED instances
           ELSE ItemDone(j, rest, IF d.verdict = "filtered"
                                  THEN add_log(<<>>, "SIGNAL", 1) ELSE <<>>)
        /\ UNCHANGED <<store, settings, running, start_time, jobs, nops, calc,
                       clock, closes, tallies>>

\* a decision without the minimum trade size of line 932
ExecuteAnySize(j, market, analysis, quote, end, rest) ==
    LET d == Decide(analysis, quote, end, settings)
        trade_size_dollars == RMul(balance, d.size_pct)
    IN  /\ IF d.verdict = "trade"
           THEN /\ Len(trades) + Cardinality(Opening) < MaxTrades
                /\ pc' = [pc EXCEPT ![j] = "deduct"]
                /\ loc' = [loc EXCEPT ![j] =
                             [rest EXCEPT !.market = market, !.d = d,
                                          !.amount = trade_size_dollars]]
                /\ logs' = <<>>
                /\ UNCHANGED instances
           ELSE ItemDone(j, rest, IF d.verdict = "filtered"
                                  THEN add_log(<<>>, "SIGNAL", 1) ELSE <<>>)
        /\ UNCHANGED <<store, settings, running, start_time, jobs, nops, calc,
                       clock, closes, tallies>>

\* lines 864-934: settings, horizon, edge, filter, SIGNAL log, sizing read.
\* `rest` is the run's locals with the item taken off.
Execute(j, market, analysis, quote, end, rest) ==
    LET d == Decide(analysis, quote, end, settings)
        trade_size_dollars == RMul(balance, d.size_pct)
    IN  /\ IF d.verdict = "trade" /\ ~RLt(trade_size_dollars, One)
           THEN /\ Len(trades) + Cardinality(Opening) < MaxTrades
                /\ pc' = [pc EXCEPT ![j] = "deduct"]
                /\ loc' = [loc EXCEPT ![j] =
                             [rest EXCEPT !.market = market, !.d = d,
                                          !.amount = trade_size_dollars]]
                /\ logs' = <<>>
                /\ UNCHANGED instances
           ELSE ItemDone(j, rest, IF d.verdict = "filtered"
                                  THEN add_log(<<>>, "SIGNAL", 1) ELSE <<>>)
        /\ UNCHANGED <<store, settings, running, start_time, jobs, nops, calc,
                       clock, closes, tallies>>

\* a debit that raises on insufficient funds: the job's except clause logs the
\* error and the run is over
deduct_raising(j) ==
    /\ pc[j] = "deduct"
    /\ IF Insufficient(balance, loc[j].amount)
       THEN /\ logs' = add_log(<<>>, "ERROR", 1)
            /\ EndRun(j)
       ELSE /\ pc' = [pc EXCEPT ![j] = "deduct_write"]
            /\ loc' = [loc EXCEPT ![j].new_balance = RSub(balance, loc[j].amount)]
            /\ logs' = <<>>
            /\ UNCHANGED instances
    /\ UNCHANGED <<store, settings, running, start_time, jobs, nops, calc,
                   clock, closes, tallies>>

\* deduct_from_balance, lines 286-290: read, check, compute; on False the WARN
\* log of line 938
deduct_from_balance_read(j) ==
    /\ pc[j] = "deduct"
    /\ IF Insufficient(balance, loc[j].amount)
       THEN ItemDone(j, Cleared(loc[j]), add_log(<<>>, "WARN", 1))
       ELSE /\ pc' = [pc EXCEPT ![j] = "deduct_write"]
            /\ loc' = [loc EXCEPT ![j].new_balance = RSub(balance, loc[j].amount)]
            /\ logs' = <<>>
            /\ UNCHANGED instances
    /\ UNCHANGED <<store, settings, running, start_time, jobs, nops, calc,
                   clock, closes, tallies>>

\* deduct_from_balance, lines 291-297: the UPDATE under the lock
deduct_from_balance_write(j) ==
    /\ pc[j] = "deduct_write"
    /\ balance' = loc[j].new_balance
    /\ pc' = [pc EXCEPT ![j] = "add_trade"]
    /\ logs' = <<>>
    /\ UNCHANGED <<total_pnl, trades, settings, running, start_time, jobs,
                   instances, loc, nops, calc, clock, closes, tallies>>

\* lines 941-981: shares, token, add_trade, TRADE log
RecordTrade(j) ==
    /\ pc[j] = "add_trade"
    /\ trades' = add_trade(TradeDict(loc[j].market, loc[j].d, loc[j].amount, j))
    /\ ItemDone(j, Cleared(loc[j]), add_log(<<>>, "TRADE", 1))
    /\ UNCHANGED <<balance, total_pnl, settings, running, start_time, jobs,
                   nops, calc, clock, closes, tallies>>

(***************************************************************************)
(* The three jobs.                                                         *)
(***************************************************************************)
\* get_open_trades(): the open rows, newest first.  A listed row is kept as its
\* id and the two columns that can change after the listing; the columns that
\* never change (entry_price, size, token_id) are read off the table on use.
RECURSIVE OpenFrom(_)
OpenFrom(i) ==
    IF i = 0 THEN <<>>
    ELSE IF trades[i].status = "open"
         THEN <<[id |-> i, current_price |-> trades[i].current_price,
                 pnl |-> trades[i].pnl]>> \o OpenFrom(i - 1)
         ELSE OpenFrom(i - 1)

get_open_trades == OpenFrom(Len(trades))

\* the ids alone, for a caller that uses none of the changing columns
RECURSIVE Ids(_)
Ids(rows) == IF rows = <<>> THEN <<>> ELSE <<Head(rows).id>> \o Ids(Tail(rows))

RECURSIVE SelectSeq2(_, _)
\* the markets of a list that are not in a set, in list order
SelectSeq2(ms, held) ==
    IF ms = <<>> THEN <<>>
    ELSE IF Head(ms) \in held THEN SelectSeq2(Tail(ms), held)
         ELSE <<Head(ms)>> \o SelectSeq2(Tail(ms), held)

\* what get_active_markets can return, by volume
MarketLists == {<<>>, <<"m1", "m2">>, <<"m2">>}

\* A tick of the sniper, with _sniper_job lines 607-621: the opening log, news
\* and markets, n pairs of a headline and a matched market to evaluate.  With
\* no new headline (news = FALSE), no market (mk = FALSE) or no pair the run
\* is over with its last log.
SniperFetch(news, mk, n) ==
    /\ Submit("sniper")
    /\ IF ~news \/ ~mk \/ n = 0
       THEN /\ logs' = add_log(add_log(<<>>, "INFO", 1),
                               IF news /\ ~mk THEN "WARN" ELSE "INFO", 1)
            /\ UNCHANGED <<instances, pc, loc, tallies>>
       ELSE /\ logs' = add_log(<<>>, "INFO", 1)
            /\ BeginRun("sniper", "evaluate", [IdleLoc EXCEPT !.left = n])
    /\ UNCHANGED <<store, settings, running, start_time, jobs, nops, calc,
                   clock, closes, tallies>>

\* _evaluate_and_trade for the next pair; an absent analysis is no trade
SniperEvaluate(market, sig) ==
    /\ pc["sniper"] = "evaluate"
    /\ loc["sniper"].left > 0
    /\ LET rest == [loc["sniper"] EXCEPT !.left = @ - 1]
       IN  IF sig.has
           THEN Execute("sniper", market, sig.analysis, sig.quote, sig.end, rest)
           ELSE /\ ItemDone("sniper", rest, <<>>)
                /\ UNCHANGED <<store, settings, running, start_time, jobs,
                               nops, calc, clock,
                               closes, tallies>>

\* A tick of the researcher, with _researcher_job lines 682-697: the opening
\* log; the candidates are the listed markets without an open position; with
\* none the run is over
ResearcherSelect(markets) ==
    /\ Submit("researcher")
    /\ LET open_market_ids == {trades[i].market_id :
                                 i \in {k \in DOMAIN trades : trades[k].status = "open"}}
           candidate_markets == SubSeq(SelectSeq2(markets, open_market_ids), 1,
                                       Min(10, Len(SelectSeq2(markets, open_market_ids))))
       IN  IF candidate_markets = <<>>
           THEN /\ logs' = add_log(<<>>, "INFO", 2)
                /\ UNCHANGED <<instances, pc, loc, tallies>>
           ELSE /\ logs' = add_log(<<>>, "INFO", 1)
                /\ BeginRun("researcher", "research",
                            [IdleLoc EXCEPT !.cands =
                               SubSeq(candidate_markets, 1,
                                      Min(3, Len(candidate_markets)))])
    /\ UNCHANGED <<store, settings, running, start_time, jobs, nops, calc,
                   clock, closes, tallies>>

\* lines 701-729 for the next candidate: search, analysis, decision
ResearcherAnalyze(found, sig) ==
    /\ pc["researcher"] = "research"
    /\ loc["researcher"].cands # <<>>
    /\ LET market == Head(loc["researcher"].cands)
           rest == [loc["researcher"] EXCEPT !.cands = Tail(@)]
       IN  IF found /\ sig.has /\ sig.analysis.confidence > 0
           THEN Execute("researcher", market, sig.analysis, sig.quote, sig.end,
                        rest)
           ELSE /\ ItemDone("researcher", rest, <<>>)
                /\ UNCHANGED <<store, settings, running, start_time, jobs,
                               nops, calc, clock,
                               closes, tallies>>

\* The exit check has `snap` left to look at, this step having logged `rows`:
\* it goes on, or (nothing left) the cycle's closing log of lines 734-738 is
\* written and the run returns.
ExitCheck(snap, rows) ==
    IF snap = <<>>
    THEN /\ logs' = add_log(rows, "INFO", 1)
         /\ EndRun("researcher")
    ELSE /\ logs' = rows
         /\ pc' = [pc EXCEPT !["researcher"] = "reevaluate"]
         /\ loc' = [loc EXCEPT !["researcher"] =
                      [Cleared(@) EXCEPT !.snap = snap, !.new_total = Zero]]
         /\ UNCHANGED instances

\* _reevaluate_positions, line 751: the open positions to check
ResearcherList ==
    /\ pc["researcher"] = "research"
    /\ loc["researcher"].cands = <<>>
    /\ ExitCheck(get_open_trades, <<>>)
    /\ UNCHANGED <<store, settings, running, start_time, jobs, nops, calc,
                   clock, closes, tallies>>

\* take profit: return on cost above 20 percent, on the listed row's pnl
TakeProfit(t) ==
    LET entry_cost == RMul(trades[t.id].entry_price, trades[t.id].size)
    IN  /\ RLt(Zero, entry_cost)
        /\ RLt(R(20, 1), RMul(RDiv(t.pnl, entry_cost), R(100, 1)))

\* lines 753-768 with close_trade lines 205-229: the exit check of the next
\* listed position; when it fires, the closing UPDATE and the portfolio read
ResearcherReevaluate ==
    /\ pc["researcher"] = "reevaluate"
    /\ loc["researcher"].snap # <<>>
    /\ LET t == Head(loc["researcher"].snap)
           current_price == IF t.current_price # Zero
                            THEN t.current_price ELSE trades[t.id].entry_price
       IN  IF TakeProfit(t)
           THEN /\ trades' = CloseRow(t.id, current_price)
                /\ closes' = Append(closes, [trade_id |-> t.id,
                                             exit_price |-> current_price])
                /\ loc' = [loc EXCEPT
                     !["researcher"].new_balance =
                         RAdd(balance, SaleProceeds(trades[t.id], current_price)),
                     !["researcher"].new_total =
                         RAdd(total_pnl, ClosePnl(trades[t.id], current_price))]
                /\ pc' = [pc EXCEPT !["researcher"] = "credit"]
                /\ logs' = <<>>
                /\ UNCHANGED instances
           ELSE /\ ExitCheck(Tail(loc["researcher"].snap), <<>>)
                /\ UNCHANGED <<trades, closes, tallies>>
    /\ UNCHANGED <<balance, total_pnl, settings, running, start_time, jobs,
                   nops, calc, clock, tallies>>

\* close_trade line 230 (update_portfolio) and the TRADE log of line 769
ResearcherCredit ==
    /\ pc["researcher"] = "credit"
    /\ balance' = loc["researcher"].new_balance
    /\ total_pnl' = loc["researcher"].new_total
    /\ ExitCheck(Tail(loc["researcher"].snap), add_log(<<>>, "TRADE", 1))
    /\ UNCHANGED <<trades, settings, running, start_time, jobs, nops, calc,
                   clock, closes, tallies>>

\* A tick of the price updater, with _price_updater_job lines 796-798: the
\* open positions; with none the run is over
UpdaterList ==
    /\ Submit("price_updater")
    /\ IF get_open_trades = <<>>
       THEN UNCHANGED <<instances, pc, loc, tallies>>
       ELSE BeginRun("price_updater", "refresh",
                     [IdleLoc EXCEPT !.snap = Ids(get_open_trades)])
    /\ logs' = <<>>
    /\ UNCHANGED <<store, settings, running, start_time, jobs, nops, calc,
                   clock, closes, tallies>>

\* an updater that takes a missing quote for an error: the except clause logs
\* it and the run is over, the remaining positions not refreshed
UpdaterStopsAtGap(hasQuote, mid) ==
    /\ pc["price_updater"] = "refresh"
    /\ loc["price_updater"].snap # <<>>
    /\ LET id == Head(loc["price_updater"].snap)
           new_price == Pct(mid)
       IN  IF trades[id].token_id # "" /\ hasQuote
           THEN /\ trades' = update_trade(id, new_price,
                                          RefreshPnl(trades[id], new_price))
                /\ logs' = <<>>
                /\ IF Tail(loc["price_updater"].snap) = <<>>
                   THEN EndRun("price_updater")
                   ELSE /\ loc' = [loc EXCEPT !["price_updater"].snap = Tail(@)]
                        /\ UNCHANGED <<pc, instances>>
           ELSE /\ logs' = add_log(<<>>, "ERROR", 1)
                /\ EndRun("price_updater")
                /\ UNCHANGED trades
    /\ UNCHANGED <<balance, total_pnl, settings, running, start_time, jobs,
                   nops, calc, clock, closes, tallies>>

\* lines 800-818 for the next listed position: token, quote (absent: hasQuote
\* FALSE), update_trade; the run ends after the last one
UpdaterRefresh(hasQuote, mid) ==
    /\ pc["price_updater"] = "refresh"
    /\ loc["price_updater"].snap # <<>>
    /\ LET id == Head(loc["price_updater"].snap)
           new_price == Pct(mid)
       IN  IF trades[id].token_id # "" /\ hasQuote
           THEN trades' = update_trade(id, new_price,
                                       RefreshPnl(trades[id], new_price))
           ELSE UNCHANGED trades
    /\ IF Tail(loc["price_updater"].snap) = <<>>
       THEN EndRun("price_updater")
       ELSE /\ loc' = [loc EXCEPT !["price_updater"].snap = Tail(@)]
            /\ UNCHANGED <<pc, instances, tallies>>
    /\ logs' = <<>>
    /\ UNCHANGED <<balance, total_pnl, settings, running, start_time, jobs,
                   nops, calc, clock,
                   closes, tallies>>

\* the strategy jobs' steps up to the decision
Deciding ==
    \/ \E news \in BOOLEAN, mk \in BOOLEAN, n \in 0..MaxItems : SniperFetch(news, mk, n)
    \/ \E m \in Markets, sig \in Signals : SniperEvaluate(m, sig)
    \/ \E ms \in MarketLists : ResearcherSelect(ms)
    \/ \E f \in BOOLEAN, sig \in Signals : ResearcherAnalyze(f, sig)

\* the steps on the store: the open, the exit check and close, the refresh
Trading ==
    \/ \E j \in Strategies : deduct_from_balance_read(j)
    \/ \E j \in Strategies : deduct_from_balance_write(j)
    \/ \E j \in Strategies : RecordTrade(j)
    \/ ResearcherList
    \/ ResearcherReevaluate
    \/ ResearcherCredit
    \/ UpdaterList
    \/ \E h \in BOOLEAN, mid \in Mids : UpdaterRefresh(h, mid)

\* The engine under its scheduler, the settings staying as stored.
Next ==
    \/ start
    \/ start_engine
    \/ stop
    \/ \E j \in Jobs, n \in {1, 2} : Fail(j, n)
    \/ Deciding
    \/ Trading

Spec == Init /\ [][Next]_vars

\* The same with the operator changing the settings at any moment.
NextSettings ==
    \/ Next
    \/ \E u \in SettingsUpdates : update_settings(u)

SpecSettings == Init /\ [][NextSettings]_vars

(***************************************************************************)
(* SpecOpen: the strategy runs with the decision left open.  A run of a    *)
(* strategy job reaches the debit with any price and any amount, which     *)
(* covers every sizing and every delay between the sizing read of line 929 *)
(* and the debit of line 937; from there the steps are those of Spec.  The  *)
(* researcher may have one more candidate to analyse after this one.       *)
(***************************************************************************)
Order(j, market, price, amount, more) ==
    /\ Submit(j)
    /\ more => j = "researcher"
    /\ Len(trades) + Cardinality(Opening) < MaxTrades
    /\ BeginRun(j, "deduct",
                [IdleLoc EXCEPT !.market = market,
                                !.d = [NoDecision EXCEPT !.verdict = "trade",
                                                         !.market_price = price],
                                !.amount = amount,
                                !.cands = IF more THEN <<"m2">> ELSE <<>>])
    /\ logs' = <<>>
    /\ UNCHANGED <<store, settings, running, start_time, jobs, nops, calc,
                   clock, closes, tallies>>

NextOpen ==
    \/ start_engine
    \/ \E j \in Strategies, m \in Markets, p \in StorePrices, a \in StoreAmounts,
          more \in BOOLEAN :
           Order(j, m, p, a, more)
    \/ \E f \in BOOLEAN, sig \in Signals : ResearcherAnalyze(f, sig)
    \/ Trading

SpecOpen == Init /\ [][NextOpen]_vars

(***************************************************************************)
(* SpecSize: the sniper alone under its scheduler, with the operator       *)
(* changing mode and risk multiplier at any moment, so that the sizing     *)
(* yields dollar amounts below, at and above the minimum of line 932.      *)
(***************************************************************************)
\* bodies of POST /settings that change the sizing
SizeUpdates ==
    { [mode |-> "grind"], [mode |-> "balanced"], [risk_multiplier |-> 1],
      [risk_multiplier |-> 2], [risk_multiplier |-> 30] }

NextSize ==
    \/ start_engine
    \/ \E u \in SizeUpdates : update_settings(u)
    \/ \E news \in BOOLEAN, mk \in BOOLEAN, n \in 0..MaxItems :
           SniperFetch(news, mk, n)
    \/ \E m \in Markets, sig \in Signals : SniperEvaluate(m, sig)
    \/ deduct_from_balance_read("sniper")
    \/ deduct_from_balance_write("sniper")
    \/ RecordTrade("sniper")

SpecSize == Init /\ [][NextSize]_vars

(***************************************************************************)
(* SpecClock: the schedule in time.  Spec lets a job the scheduler holds   *)
(* fire at any moment; here the scheduler fires a job when its             *)
(* next_run_time has come, and a run's body is left out (it is in Spec):   *)
(* a run begins and, some time later, returns.                             *)
(***************************************************************************)
\* time passes, by the shortest interval; the scheduler, woken at each
\* next_run_time, has fired whatever was due before it does
Advance ==
    /\ now + Interval("sniper") <= MaxTime
    /\ \A j \in jobs : now < next_run_time[j]
    /\ now' = now + Interval("sniper")
    /\ logs' = <<>>
    /\ UNCHANGED <<store, settings, engine, nops, calc, next_run_time, closes, tallies>>

\* the scheduler fires a due job: the next run is one interval on, and the run
\* is submitted unless one is in flight
Fire(j) ==
    /\ j \in jobs
    /\ next_run_time[j] <= now
    /\ next_run_time' = [next_run_time EXCEPT ![j] = @ + Interval(j)]
    /\ IF Submit(j)
       THEN BeginRun(j, "run", IdleLoc)
       ELSE UNCHANGED <<instances, pc, loc, tallies>>
    /\ logs' = <<>>
    /\ UNCHANGED <<store, settings, running, start_time, jobs, nops, calc,
                   now, closes, tallies>>

\* the job function returns
Return(j) ==
    /\ pc[j] = "run"
    /\ EndRun(j)
    /\ logs' = <<>>
    /\ UNCHANGED <<store, settings, running, start_time, jobs, nops, calc,
                   clock, closes, tallies>>

NextClock ==
    \/ start
    \/ stop
    \/ Advance
    \/ \E j \in Jobs : Fire(j)
    \/ \E j \in Jobs : Return(j)

SpecClock == Init /\ [][NextClock]_vars

(***************************************************************************)
(* SpecRisk: the pure functions of the risk engine, each called on its own *)
(* once with arguments from the sets below; calc keeps the call and its    *)
(* result.                                                                 *)
(***************************************************************************)
\* probabilities and confidences the estimator can answer, in percent
RiskProbabilities == {0, 30, 40, 60, 70, 90, 100}
RiskConfidences == {5, 10, 69, 70, 80, 84, 85, 90}
\* market prices, in cents (0 and 100: no odds)
RiskPrices == {0, 10, 20, 21, 50, 55, 100}
\* edges, in percentage points
RiskEdges == {-25, 3, 4, 5, 7, 8, 15}
\* risk_multiplier, in tenths: the SettingsUpdate range 0.1 .. 3.0
RiskMultipliers == {1, 10, 15, 30}
\* outcomePrices as (yes, no) in cents; the last is a quote with a spread
RiskQuotes == {<<55, 45>>, <<50, 50>>, <<10, 90>>, <<85, 15>>, <<52, 49>>}
RiskEnds == {NoEnd, InDays(10), InDays(45), NaiveInDays(45)}
\* end dates around the horizon, and max_days over the SettingsUpdate range
HorizonEnds ==
    {NoEnd, Unparsable} \cup {InDays(n) : n \in {0, 1, 2, 30, 31, 45, 365, 366}}
        \cup {NaiveInDays(n) : n \in {1, 10, 30, 31, 45, 400}}
HorizonDays == {1, 7, 30, 90, 365}
RiskSettings ==
    [mode : {"grind", "balanced", "moonshot"}, max_days : {30},
     allow_shorting : {"true", "false"}, risk_multiplier : RiskMultipliers]
RiskAnalyses ==
    [probability : RiskProbabilities, confidence : RiskConfidences,
     side : {"YES", "NO"}]

Call_calculate_kelly(p, market_price) ==
    /\ calc' = [fn |-> "_calculate_kelly", p |-> p, market_price |-> market_price,
                result |-> _calculate_kelly(p, market_price)]
    /\ logs' = <<>>
    /\ UNCHANGED <<store, settings, engine, nops, clock, closes, tallies>>

Call_apply_risk_filter(confidence, edge, market_price, ai_prob, mode, risk_mult) ==
    /\ calc' = [fn |-> "_apply_risk_filter", confidence |-> confidence,
                edge |-> edge, market_price |-> market_price,
                ai_prob |-> ai_prob, mode |-> mode, risk_mult |-> risk_mult,
                result |-> _apply_risk_filter(confidence, edge, market_price,
                                              ai_prob, mode, risk_mult)]
    /\ logs' = <<>>
    /\ UNCHANGED <<store, settings, engine, nops, clock, closes, tallies>>

Call_check_time_horizon(end, max_days) ==
    /\ calc' = [fn |-> "_check_time_horizon", end |-> end,
                max_days |-> max_days,
                result |-> _check_time_horizon(end, max_days)]
    /\ logs' = <<>>
    /\ UNCHANGED <<store, settings, engine, nops, clock, closes, tallies>>

\* _execute_trade_decision up to the risk filter, under the settings st
CallDecide(analysis, quote, end, st) ==
    /\ calc' = [fn |-> "Decide", analysis |-> analysis, quote |-> quote,
                end |-> end, st |-> st,
                result |-> Decide(analysis, quote, end, st)]
    /\ logs' = IF Decide(analysis, quote, end, st).verdict = "filtered"
               THEN add_log(<<>>, "SIGNAL", 1) ELSE <<>>
    /\ UNCHANGED <<store, settings, engine, nops, clock, closes, tallies>>

\* one call per behaviour: nothing is called after a call returned
NextRisk ==
    \/ /\ calc = NoCall
       /\ \E p \in RiskProbabilities, m \in RiskPrices :
              Call_calculate_kelly(Pct(p), Pct(m))
    \/ /\ calc = NoCall
       /\ \E c \in RiskConfidences, e \in RiskEdges, m \in RiskPrices,
             p \in RiskProbabilities, mode \in {"grind", "balanced", "moonshot"},
             k \in RiskMultipliers :
              Call_apply_risk_filter(c, R(e, 1), Pct(m), Pct(p), mode, R(k, 10))
    \/ /\ calc = NoCall
       /\ \E a \in RiskAnalyses, q \in RiskQuotes, e \in RiskEnds,
             st \in RiskSettings :
              CallDecide(a, q, e, st)
    \/ /\ calc = NoCall
       /\ \E e \in HorizonEnds, d \in HorizonDays :
              Call_check_time_horizon(e, d)

SpecRisk == Init /\ [][NextRisk]_vars

(***************************************************************************)
(* SpecMatch: the matcher called once on a headline and a list of markets. *)
(***************************************************************************)
\* headlines the news feeds can carry
Headlines ==
    <<
      \* 1: "Federal Reserve raises interest rates"
        << "F", "e", "d", "e", "r", "a", "l", " ", "R", "e", "s", "e", "r", "v",
        "e", " ", "r", "a", "i", "s", "e", "s", " ", "i", "n", "t", "e", "r",
        "e", "s", "t", " ", "r", "a", "t", "e", "s">>,
      \* 2: "The Fed will cut rates"
        << "T", "h", "e", " ", "F", "e", "d", " ", "w", "i", "l", "l", " ", "c",
        "u", "t", " ", "r", "a", "t", "e", "s">>,
      \* 3: "Bitcoin ETF vote: SEC says no to new 2x fund"
        << "B", "i", "t", "c", "o", "i", "n", " ", "E", "T", "F", " ", "v", "o",
        "t", "e", ":", " ", "S", "E", "C", " ", "s", "a", "y", "s", " ", "n",
        "o", " ", "t", "o", " ", "n", "e", "w", " ", "2", "x", " ", "f", "u",
        "n", "d">>,
      \* 4: "Oil gas coal wind solar hydro prices"
        << "O", "i", "l", " ", "g", "a", "s", " ", "c", "o", "a", "l", " ", "w",
        "i", "n", "d", " ", "s", "o", "l", "a", "r", " ", "h", "y", "d", "r",
        "o", " ", "p", "r", "i", "c", "e", "s">>,
      \* 5: "It is up"
        << "I", "t", " ", "i", "s", " ", "u", "p">>,
      \* 6: ""
        <<>>,
      \* 7: "rates rates"
        << "r", "a", "t", "e", "s", " ", "r", "a", "t", "e", "s">>,
      \* 8: "US-China G20 trade_war talks"
        << "U", "S", "-", "C", "h", "i", "n", "a", " ", "G", "2", "0", " ", "t",
        "r", "a", "d", "e", "_", "w", "a", "r", " ", "t", "a", "l", "k", "s">>
    >>

\* question texts of the markets
Questions ==
    <<
      \* 1: "Fed interest rate decision in March?"
        << "F", "e", "d", " ", "i", "n", "t", "e", "r", "e", "s", "t", " ", "r",
        "a", "t", "e", " ", "d", "e", "c", "i", "s", "i", "o", "n", " ", "i",
        "n", " ", "M", "a", "r", "c", "h", "?">>,
      \* 2: "Will the Federal Reserve cut interest rates?"
        << "W", "i", "l", "l", " ", "t", "h", "e", " ", "F", "e", "d", "e", "r",
        "a", "l", " ", "R", "e", "s", "e", "r", "v", "e", " ", "c", "u", "t",
        " ", "i", "n", "t", "e", "r", "e", "s", "t", " ", "r", "a", "t", "e",
        "s", "?">>,
      \* 3: "Bitcoin above 100k?"
        << "B", "i", "t", "c", "o", "i", "n", " ", "a", "b", "o", "v", "e", " ",
        "1", "0", "0", "k", "?">>,
      \* 4: "Will the SEC approve a Bitcoin ETF?"
        << "W", "i", "l", "l", " ", "t", "h", "e", " ", "S", "E", "C", " ", "a",
        "p", "p", "r", "o", "v", "e", " ", "a", " ", "B", "i", "t", "c", "o",
        "i", "n", " ", "E", "T", "F", "?">>,
      \* 5: "Oil prices above 100?"
        << "O", "i", "l", " ", "p", "r", "i", "c", "e", "s", " ", "a", "b", "o",
        "v", "e", " ", "1", "0", "0", "?">>,
      \* 6: "Solar and wind capacity"
        << "S", "o", "l", "a", "r", " ", "a", "n", "d", " ", "w", "i", "n", "d",
        " ", "c", "a", "p", "a", "c", "i", "t", "y">>,
      \* 7: "China trade talks"
        << "C", "h", "i", "n", "a", " ", "t", "r", "a", "d", "e", " ", "t", "a",
        "l", "k", "s">>,
      \* 8: ""
        <<>>,
      \* 9: "Coal gas oil hydro"
        << "C", "o", "a", "l", " ", "g", "a", "s", " ", "o", "i", "l", " ", "h",
        "y", "d", "r", "o">>
    >>

\* what get_active_markets can hand the matcher, as places in Questions
MarketBooks ==
    {<<>>, <<1>>, <<1, 2>>, <<2, 1>>, <<3, 4>>, <<4, 3, 8>>, <<5, 6, 9>>,
    <<9, 6, 5>>, <<5, 6, 9, 5, 6, 9, 5>>, <<6, 5, 9, 6, 5, 9, 6, 5>>,
    <<1, 2, 3, 4, 5, 6, 7, 8, 9>>, <<9, 8, 7, 6, 5, 4, 3, 2, 1>>,
    <<7, 7, 7>>, <<8>>, <<2, 2, 1, 1, 2, 1, 2>>, <<5, 5, 5, 5, 5, 5>>}

Call_match_headline_to_markets(headline, book) ==
    LET markets == [i \in 1..Len(book) |-> Questions[book[i]]]
    IN  /\ calc' = [fn |-> "_match_headline_to_markets", headline |-> headline,
                    markets |-> markets, keywords |-> Keywords(headline),
                    result |-> _match_headline_to_markets(headline, markets)]
        /\ logs' = <<>>
        /\ UNCHANGED <<store, settings, engine, nops, clock, closes, tallies>>

NextMatch ==
    /\ calc = NoCall
    /\ \E h \in 1..Len(Headlines), b \in MarketBooks :
           Call_match_headline_to_markets(Headlines[h], b)

SpecMatch == Init /\ [][NextMatch]_vars

(***************************************************************************)
(* SpecNews: the sniper's run over its headlines, alone. A headline is a   *)
(* pair <<published, hash>>; an evaluation of a headline against a market  *)
(* is one call of the estimator and is given by what it returned: TRUE     *)
(* when a position was opened. A position opened here costs one dollar.    *)
(***************************************************************************)
\* sniper runs the model follows
MaxRuns == 2
\* headlines one run works on, markets one headline is evaluated against
MaxHeadlines == 5
MaxMatched == 2

\* what the sources can return in one fetch, in the order fetched: nothing, one
\* headline, one headline carried by two sources, more than a run works on
FeedLists ==
    { <<>>,
      << <<1, 1>> >>,
      << <<2, 2>>, <<1, 1>>, <<2, 2>> >>,
      [i \in 1..(MaxHeadlines + 1) |-> <<i, i>>] }
\* how many markets the matcher can return for a headline
MatchCounts == {0, 1, MaxMatched + 1}

\* the deduplication loop of get_all_news over what is left of all_news
RECURSIVE Unique(_, _, _)
Unique(all_news, seen, cache) ==
    IF all_news = <<>> THEN <<>>
    ELSE LET h == Head(all_news)[2]
         IN IF h \notin seen /\ h \notin cache
            THEN <<Head(all_news)>> \o Unique(Tail(all_news), seen \cup {h}, cache)
            ELSE Unique(Tail(all_news), seen, cache)

\* get_all_news after the hourly reset: deduplicated, newest first
get_all_news(all_news, cache) == SortDescending(Unique(all_news, {}, cache))

\* a run that works on every headline it fetched
AllHeadlines(news_items) == news_items
\* news_items[:5]
TopHeadlines(news_items) ==
    SubSeq(news_items, 1, Min(MaxHeadlines, Len(news_items)))

\* len(matched_markets[:2])
TopMatched(k) == Min(MaxMatched, k)

\* the sniper's tick: the hash cache is reset when an hour has gone by since
\* the last reset, the headlines are fetched; without a headline or without a
\* market the run returns
SniperNews(elapsed, all_news, mk) ==
    /\ Submit("sniper")
    /\ cycle.run < MaxRuns
    /\ LET cache == IF elapsed THEN {} ELSE _processed_hashes
           news_items == get_all_news(all_news, cache)
       IN /\ _processed_hashes' = cache
          /\ evaluated' = IF elapsed THEN {} ELSE evaluated
          /\ IF news_items = <<>> \/ ~mk
             THEN /\ logs' = add_log(add_log(<<>>, "INFO", 1),
                                     IF news_items = <<>> THEN "INFO" ELSE "WARN", 1)
                  /\ cycle' = [NoCycle EXCEPT !.run = cycle.run + 1,
                                              !.opened_before = Len(trades)]
                  /\ UNCHANGED <<instances, pc, loc>>
             ELSE /\ logs' = add_log(<<>>, "INFO", 1)
                  /\ cycle' = [NoCycle EXCEPT !.run = cycle.run + 1,
                                              !.news_items = TopHeadlines(news_items),
                                              !.opened_before = Len(trades)]
                  /\ BeginRun("sniper", "headline", IdleLoc)
    /\ UNCHANGED <<store, settings, running, start_time, jobs, nops, calc,
                   clock, closes, survey, lock>>

\* the end of the loop body for the headline in hand: mark_processed, then the
\* next headline, or the closing log and the run's end
HeadlineDone(c) ==
    /\ _processed_hashes' = _processed_hashes \cup {Head(c.news_items)[2]}
    /\ cycle' = [c EXCEPT !.news_items = Tail(@), !.matched = 0]
    /\ IF Tail(c.news_items) = <<>>
       THEN /\ logs' = add_log(<<>>, "INFO", 1)
            /\ EndRun("sniper")
       ELSE /\ logs' = <<>>
            /\ pc' = [pc EXCEPT !["sniper"] = "headline"]
            /\ UNCHANGED <<instances, loc>>

\* the matcher is run on the next headline and returns k markets
MatchHeadline(k) ==
    /\ pc["sniper"] = "headline"
    /\ evaluated' = evaluated \cup {<<Head(cycle.news_items)[2], cycle.run>>}
    /\ IF TopMatched(k) = 0
       THEN HeadlineDone(cycle)
       ELSE /\ cycle' = [cycle EXCEPT !.matched = TopMatched(k)]
            /\ pc' = [pc EXCEPT !["sniper"] = "pair"]
            /\ logs' = <<>>
            /\ UNCHANGED <<instances, loc, _processed_hashes>>
    /\ UNCHANGED <<store, settings, running, start_time, jobs, nops, calc,
                   clock, closes, survey, lock>>

\* _evaluate_and_trade on the next matched market of the headline in hand
EvaluatePair(result) ==
    /\ pc["sniper"] = "pair"
    /\ IF result
       THEN /\ balance' = RSub(balance, One)
            /\ trades' = add_trade(TradeDict("m1", [NoDecision EXCEPT
                                                        !.verdict = "trade",
                                                        !.market_price = Pct(50)],
                                             One, "sniper"))
       ELSE UNCHANGED <<balance, trades>>
    /\ LET c == [cycle EXCEPT !.calls = @ + 1,
                              !.trades_made = IF result THEN @ + 1 ELSE @,
                              !.matched = @ - 1]
       IN IF c.matched = 0
          THEN HeadlineDone(c)
          ELSE /\ cycle' = c
               /\ logs' = <<>>
               /\ UNCHANGED <<instances, pc, loc, _processed_hashes>>
    /\ UNCHANGED <<total_pnl, settings, running, start_time, jobs, nops, calc,
                   clock, closes, survey, evaluated, lock>>

\* the except clause of _sniper_job: _evaluate_and_trade raised (n = 2 when the
\* ai property logged it before raising), the run ends where it stands
SniperFail(n) ==
    /\ pc["sniper"] = "pair"
    /\ logs' = add_log(<<>>, "ERROR", n)
    /\ cycle' = [cycle EXCEPT !.news_items = <<>>, !.matched = 0]
    /\ EndRun("sniper")
    /\ UNCHANGED <<store, settings, running, start_time, jobs, nops, calc,
                   clock, closes, survey, _processed_hashes, evaluated, lock>>

NextNews ==
    \/ start_engine
    \/ \E elapsed \in BOOLEAN, all_news \in FeedLists, mk \in BOOLEAN :
          SniperNews(elapsed, all_news, mk)
    \/ \E k \in MatchCounts : MatchHeadline(k)
    \/ \E result \in BOOLEAN : EvaluatePair(result)
    \/ \E n \in {1, 2} : SniperFail(n)

SpecNews == Init /\ [][NextNews]_vars

(***************************************************************************)
(* SpecResearch: the researcher's run over its candidates, alone, on lists *)
(* with more markets than a run takes. The research of a candidate is      *)
(* given by what it came to: results found or not, a position opened or    *)
(* not. A position opened here costs one dollar and is never repriced, so  *)
(* the exit check that ends the run closes nothing.                        *)
(***************************************************************************)
\* researcher runs the model follows
MaxSurveys == 2
\* candidates one run keeps, candidates one run researches
MaxCandidates == 10
MaxResearched == 3

\* what get_active_markets can return: nothing, one market, a market listed
\* twice, more markets than a run keeps
LongList ==
    <<"m1", "m2", "m3", "m4", "m5", "m6", "m7", "m8", "m9", "m10", "m11", "m12">>
ResearchLists == {<<>>, <<"m1">>, <<"m2", "m1", "m2">>, LongList}

\* the markets of the run's list without an open position, cut at [:10]
Candidates(markets, open_market_ids) ==
    SubSeq(SelectSeq2(markets, open_market_ids), 1,
           Min(MaxCandidates, Len(SelectSeq2(markets, open_market_ids))))

\* a run that researches every candidate
AllCandidates(candidate_markets) == candidate_markets
\* candidate_markets[:3]
TopCandidates(candidate_markets) ==
    SubSeq(candidate_markets, 1, Min(MaxResearched, Len(candidate_markets)))

\* the researcher's tick and lines 682-697: the candidates of the run
ResearcherSurvey(markets) ==
    /\ Submit("researcher")
    /\ survey.run < MaxSurveys
    /\ LET open_market_ids == {trades[i].market_id :
                                 i \in {k \in DOMAIN trades : trades[k].status = "open"}}
           candidate_markets == Candidates(markets, open_market_ids)
       IN  /\ survey' = [NoSurvey EXCEPT !.run = survey.run + 1,
                                         !.candidate_markets = candidate_markets,
                                         !.opened_before = Len(trades)]
           /\ IF candidate_markets = <<>>
              THEN /\ logs' = add_log(<<>>, "INFO", 2)
                   /\ UNCHANGED <<instances, pc, loc>>
              ELSE /\ logs' = add_log(<<>>, "INFO", 1)
                   /\ BeginRun("researcher", "research",
                               [IdleLoc EXCEPT !.cands =
                                  TopCandidates(candidate_markets)])
    /\ UNCHANGED <<store, settings, running, start_time, jobs, nops, calc,
                   clock, closes, _processed_hashes, cycle, evaluated, lock>>

\* lines 701-729 for the next candidate: the search, and with results the
\* analysis and the decision
ResearchCandidate(found, opened) ==
    /\ pc["researcher"] = "research"
    /\ loc["researcher"].cands # <<>>
    /\ ~found => ~opened
    /\ LET market == Head(loc["researcher"].cands)
           rest == [loc["researcher"] EXCEPT !.cands = Tail(@)]
       IN  /\ IF opened
              THEN /\ balance' = RSub(balance, One)
                   /\ trades' = add_trade(TradeDict(market,
                                            [NoDecision EXCEPT
                                                !.verdict = "trade",
                                                !.market_price = Pct(50)],
                                            One, "researcher"))
              ELSE UNCHANGED <<balance, trades>>
           /\ ItemDone("researcher", rest,
                       IF opened THEN add_log(<<>>, "TRADE", 1) ELSE <<>>)
           /\ survey' = [survey EXCEPT
                            !.researched = Append(@, market),
                            !.trades_made = IF opened THEN @ + 1 ELSE @]
    /\ UNCHANGED <<total_pnl, settings, running, start_time, jobs, nops, calc,
                   clock, closes, _processed_hashes, cycle, evaluated, lock>>

NextResearch ==
    \/ start_engine
    \/ \E ms \in ResearchLists : ResearcherSurvey(ms)
    \/ \E found \in BOOLEAN, opened \in BOOLEAN : ResearchCandidate(found, opened)
    \/ ResearcherList
    \/ ResearcherReevaluate

SpecResearch == Init /\ [][NextResearch]_vars

(***************************************************************************)
(* SpecExit: the researcher's runs of SpecResearch with the price updater  *)
(* at work between and during them, so that the exit check finds returns   *)
(* above and below its threshold.                                          *)
(***************************************************************************)
NextExit ==
    \/ NextResearch
    \/ ResearcherCredit
    \/ UpdaterList
    \/ \E h \in BOOLEAN, mid \in Mids : UpdaterRefresh(h, mid)

SpecExit == Init /\ [][NextExit]_vars

(***************************************************************************)
(* SpecItems: the two strategy jobs over cycles of two items, each item    *)
(* with the estimator's reply as it reaches the job.                       *)
(***************************************************************************)
\* what comes back for one item: "none" (the request failed, or the text held
\* no JSON object, or an empty one: the analysis is None or falsy), "mistyped"
\* (a JSON object whose probability, confidence or side is no number or no
\* string, as in {"probability": "65%"}), "conforming"
Replies == {"none", "mistyped", "conforming"}

\* _evaluate_and_trade on the next pair, by the reply: None returns False at
\* line 844, a mistyped field raises at line 864, 867 or 869
SniperReply(market, reply, sig) ==
    \/ reply = "none" /\ SniperEvaluate(market, [sig EXCEPT !.has = FALSE])
    \/ reply = "mistyped" /\ Fail("sniper", 1)
    \/ reply = "conforming" /\ sig.has /\ SniperEvaluate(market, sig)

\* lines 701-729 on the next candidate, by the search results and the reply:
\* a mistyped confidence raises at line 718, another mistyped field at 864-869
ResearcherReply(found, reply, sig) ==
    \/ ~found /\ ResearcherAnalyze(FALSE, sig)
    \/ found /\ reply = "none" /\ ResearcherAnalyze(TRUE, [sig EXCEPT !.has = FALSE])
    \/ found /\ reply = "mistyped" /\ Fail("researcher", 1)
    \/ found /\ reply = "conforming" /\ sig.has /\ ResearcherAnalyze(TRUE, sig)

NextItems ==
    \/ start_engine
    \/ \E news \in BOOLEAN, mk \in BOOLEAN, n \in 0..(MaxItems + 1) :
           SniperFetch(news, mk, n)
    \/ \E m \in Markets, reply \in Replies, sig \in Signals :
           SniperReply(m, reply, sig)
    \/ \E ms \in MarketLists : ResearcherSelect(ms)
    \/ \E f \in BOOLEAN, reply \in Replies, sig \in Signals :
           ResearcherReply(f, reply, sig)
    \/ \E j \in Strategies : deduct_from_balance_read(j)
    \/ \E j \in Strategies : deduct_from_balance_write(j)
    \/ \E j \in Strategies : RecordTrade(j)
    \/ ResearcherList
    \/ ResearcherReevaluate

SpecItems == Init /\ [][NextItems]_vars

(***************************************************************************)
(* SpecTune: the sniper of SpecSize under an operator who changes any of   *)
(* the four settings between and during its runs.                          *)
(***************************************************************************)
TuneUpdates == SettingsUpdates \cup {[max_days |-> 60]}

NextTune ==
    \/ start_engine
    \/ \E u \in TuneUpdates : update_settings(u)
    \/ \E news \in BOOLEAN, mk \in BOOLEAN, n \in 0..MaxItems :
           SniperFetch(news, mk, n)
    \/ \E m \in Markets, sig \in Signals : SniperEvaluate(m, sig)
    \/ deduct_from_balance_read("sniper")
    \/ deduct_from_balance_write("sniper")
    \/ RecordTrade("sniper")

SpecTune == Init /\ [][NextTune]_vars

(***************************************************************************)
(* SpecLock: the three jobs as the sequences of gateway calls and store    *)
(* writes their runs make, with Database._lock. A store write is a         *)
(* `with self._lock` block around one statement and its commit; the reads  *)
(* of the store take no lock and are left out.                             *)
(***************************************************************************)
\* one run of a job with one item, as "call" (a request to a gateway, on which
\* the job waits) and "write" (a store operation's block under the lock):
\* sniper: add_log, get_all_news, get_active_markets, sniper_analysis, the debit,
\* add_trade, add_log, add_log; researcher: add_log, get_active_markets, search,
\* researcher_analysis, the debit, add_trade, add_log, close_trade's UPDATE,
\* update_portfolio, add_log, add_log; price updater: get_market_price,
\* update_trade
Program(j) ==
    IF j = "sniper"
    THEN <<"write", "call", "call", "call", "write", "write", "write", "write">>
    ELSE IF j = "researcher"
    THEN <<"write", "call", "call", "call", "write", "write", "write", "write",
           "write", "write", "write">>
    ELSE <<"call", "write">>

\* a job's tick: the run is in flight with its whole program before it
BeginProgram(j) ==
    /\ Submit(j)
    /\ BeginRun(j, "ready", [IdleLoc EXCEPT !.cands = Program(j)])
    /\ logs' = <<>>
    /\ UNCHANGED <<store, settings, running, start_time, jobs, nops, calc,
                   clock, closes, _processed_hashes, cycle, evaluated, survey,
                   lock>>

\* the run has done the operation at the head of its program
Proceed(j) ==
    IF Tail(loc[j].cands) = <<>>
    THEN EndRun(j)
    ELSE /\ pc' = [pc EXCEPT ![j] = "ready"]
         /\ loc' = [loc EXCEPT ![j].cands = Tail(@)]
         /\ UNCHANGED instances

\* a request that is sent while the store's lock is taken for it
GatewayCallLocked(j) ==
    /\ pc[j] = "ready"
    /\ Head(loc[j].cands) = "call"
    /\ lock = "free"
    /\ lock' = j
    /\ pc' = [pc EXCEPT ![j] = "gateway"]
    /\ logs' = <<>>
    /\ UNCHANGED <<store, settings, running, start_time, jobs, instances, loc,
                   nops, calc, clock, closes, _processed_hashes, cycle,
                   evaluated, survey>>

\* the job sends its request to a gateway and waits for the answer
GatewayCall(j) ==
    /\ pc[j] = "ready"
    /\ Head(loc[j].cands) = "call"
    /\ pc' = [pc EXCEPT ![j] = "gateway"]
    /\ logs' = <<>>
    /\ UNCHANGED <<store, settings, running, start_time, jobs, instances, loc,
                   nops, calc, clock, closes, _processed_hashes, cycle,
                   evaluated, survey, lock>>

\* the answer, or the timeout, arrives
GatewayReturn(j) ==
    /\ pc[j] = "gateway"
    /\ Proceed(j)
    /\ logs' = <<>>
    /\ UNCHANGED <<store, settings, running, start_time, jobs, nops, calc,
                   clock, closes, _processed_hashes, cycle, evaluated, survey,
                   lock>>

\* `with self._lock:` is entered; the job waits while another job is inside
Acquire(j) ==
    /\ pc[j] = "ready"
    /\ Head(loc[j].cands) = "write"
    /\ lock = "free"
    /\ lock' = j
    /\ pc' = [pc EXCEPT ![j] = "locked"]
    /\ logs' = <<>>
    /\ UNCHANGED <<store, settings, running, start_time, jobs, instances, loc,
                   nops, calc, clock, closes, _processed_hashes, cycle,
                   evaluated, survey>>

\* the statement and its commit are done, the block is left
Release(j) ==
    /\ pc[j] = "locked"
    /\ lock' = "free"
    /\ Proceed(j)
    /\ logs' = <<>>
    /\ UNCHANGED <<store, settings, running, start_time, jobs, nops, calc,
                   clock, closes, _processed_hashes, cycle, evaluated, survey>>

NextLock ==
    \/ start_engine
    \/ \E j \in Jobs : BeginProgram(j)
    \/ \E j \in Jobs : GatewayCall(j)
    \/ \E j \in Jobs : GatewayReturn(j)
    \/ \E j \in Jobs : Acquire(j)
    \/ \E j \in Jobs : Release(j)

SpecLock == Init /\ [][NextLock]_vars

(***************************************************************************)
(* SpecStats: get_stats on ledgers of a few rows; of a row only the status *)
(* and the stored pnl are read.                                            *)
(***************************************************************************)
\* rows of the ledgers get_stats is called on
MaxRows == 3
StatsRows ==
    { [status |-> "open", pnl |-> R(2, 1)],
      [status |-> "open", pnl |-> R(-1, 1)],
      [status |-> "closed", pnl |-> R(2, 1)],
      [status |-> "closed", pnl |-> Zero],
      [status |-> "closed", pnl |-> R(-1, 1)] }
StatsLedgers == UNION {[1..n -> StatsRows] : n \in 0..MaxRows}

\* the sum of the pnl of the rows of a set
RECURSIVE SumPnl(_, _)
SumPnl(rows, among) ==
    IF among = {} THEN Zero
    ELSE LET i == CHOOSE k \in among : TRUE
         IN  RAdd(rows[i].pnl, SumPnl(rows, among \ {i}))

\* statistics that take every row with a gain for a win
get_stats_any_status(rows) ==
    LET open_trades == {i \in DOMAIN rows : rows[i].status = "open"}
        winning == Cardinality({i \in DOMAIN rows : RLt(Zero, rows[i].pnl)})
        closed == Cardinality({i \in DOMAIN rows : rows[i].status = "closed"})
        win_rate == IF closed > 0 THEN R(winning * 100, closed) ELSE Zero
    IN  [unrealized_pnl |-> Round2(SumPnl(rows, open_trades)),
         total_trades |-> Len(rows), open_trades |-> Cardinality(open_trades),
         closed_trades |-> closed, winning_trades |-> winning,
         win_rate |-> Round(win_rate, 10)]

\* get_stats on the trades table `rows` (the portfolio's columns are passed on
\* as they are and left out)
get_stats(rows) ==
    LET open_trades == {i \in DOMAIN rows : rows[i].status = "open"}
        winning == Cardinality({i \in DOMAIN rows :
                                  rows[i].status = "closed" /\ RLt(Zero, rows[i].pnl)})
        closed == Cardinality({i \in DOMAIN rows : rows[i].status = "closed"})
        win_rate == IF closed > 0 THEN R(winning * 100, closed) ELSE Zero
    IN  [unrealized_pnl |-> Round2(SumPnl(rows, open_trades)),
         total_trades |-> Len(rows), open_trades |-> Cardinality(open_trades),
         closed_trades |-> closed, winning_trades |-> winning,
         win_rate |-> Round(win_rate, 10)]

Call_get_stats(rows) ==
    /\ calc' = [fn |-> "get_stats", rows |-> rows, result |-> get_stats(rows)]
    /\ logs' = <<>>
    /\ UNCHANGED <<store, settings, engine, nops, clock, closes, tallies>>

NextStats == calc = NoCall /\ \E rows \in StatsLedgers : Call_get_stats(rows)

SpecStats == Init /\ [][NextStats]_vars

(***************************************************************************)
(* Properties.                                                             *)
(***************************************************************************)
\* what the positions recorded so far cost: the sum of entry_price * size
RECURSIVE OpenCosts(_)
OpenCosts(n) ==
    IF n = 0 THEN Zero
    ELSE RAdd(RMul(trades[n].entry_price, trades[n].size), OpenCosts(n - 1))

\* what the closes made so far brought: the sum of exit_price * size
RECURSIVE CloseProceeds(_)
CloseProceeds(n) ==
    IF n = 0 THEN Zero
    ELSE RAdd(RMul(closes[n].exit_price, trades[closes[n].trade_id].size),
              CloseProceeds(n - 1))

\* initial - sum(open costs) + sum(close proceeds)
Accounted ==
    RSub(RAdd(R(InitialBalance, 1), CloseProceeds(Len(closes))),
         OpenCosts(Len(trades)))

\* C1 (SpecOpen): the balance is never negative, whatever the interleaving of
\* the opens of the two strategy jobs and the researcher's closes; and a debit
\* larger than the balance deduct_from_balance reads is refused: the run does
\* not go on to the write, the balance is left as it is and no position is
\* recorded.
C1_BalanceNeverNegative ==
    /\ [](RLe(Zero, balance))
    /\ [][\A j \in Strategies :
            (pc[j] = "deduct" /\ pc'[j] # "deduct" /\ RLt(balance, loc[j].amount))
            => /\ pc'[j] \notin {"deduct_write", "add_trade"}
               /\ balance' = balance
               /\ trades' = trades
               /\ "WARN" \in {logs'[i] : i \in DOMAIN logs'}]_vars

\* a debit has just been refused while the other job, whose debit took the
\* balance below the amount, is in the middle of its own open
C1_Witness ==
    /\ logs # <<>>
    /\ Head(logs) = "WARN"
    /\ \E j \in Strategies : pc[j] = "add_trade"
    /\ RLt(balance, R(60, 1))

\* C2 (SpecStore): with the opens and closes run one at a time, the balance is
\* the initial balance, less entry_price * size of every position opened, plus
\* exit_price * size of every close performed.
C2_BalanceAccounting == balance = Accounted

\* two positions opened, one of them closed
C2_Witness ==
    /\ Len(trades) = 2
    /\ closes # <<>>
    /\ \E i \in DOMAIN trades : trades[i].status = "open"

\* C3 (Spec): no balance update is lost: once no strategy run is between the
\* read and the write of a debit or a credit, or between a debit and its
\* insert, the balance shows every debit and every credit made.
C3_NoLostUpdate ==
    (\A j \in Strategies : pc[j] \notin {"deduct_write", "add_trade", "credit"})
    => balance = Accounted

\* C4 (SpecStore): close_trade on a position that is closed already changes
\* neither the balance, nor total_pnl, nor the position's row.
C4_SecondCloseIsNoOp ==
    [][\A i \in DOMAIN trades :
         (/\ trades[i].status = "closed"
          /\ Len(closes') = Len(closes) + 1
          /\ closes'[Len(closes')].trade_id = i)
         => /\ balance' = balance
            /\ total_pnl' = total_pnl
            /\ trades'[i] = trades[i]]_vars

\* C5 (Spec): no state shows a balance debited for a position that is not
\* recorded: as long as no position is recorded and no close was made, the
\* balance is the initial one.
C5_OpenIsAtomic ==
    (trades = <<>> /\ closes = <<>>) => balance = R(InitialBalance, 1)

\* C6 (Spec): no step changes the current_price or the pnl of a position that
\* is closed.
C6_ClosedIsFrozen ==
    [][\A i \in DOMAIN trades :
         trades[i].status = "closed"
         => /\ trades'[i].current_price = trades[i].current_price
            /\ trades'[i].pnl = trades[i].pnl]_vars

\* C7 (Spec): no step removes a position or takes a closed position back to
\* open, and a position that appears is open.
C7_StatusOnlyCloses ==
    [][/\ \A i \in DOMAIN trades :
            /\ i \in DOMAIN trades'
            /\ trades[i].status = "closed" => trades'[i].status = "closed"
       /\ \A i \in DOMAIN trades' \ DOMAIN trades :
            trades'[i].status = "open"]_vars

\* a closed position the price updater has written to after the close
C7_Witness ==
    \E n \in DOMAIN closes :
        /\ trades[closes[n].trade_id].status = "closed"
        /\ trades[closes[n].trade_id].current_price # closes[n].exit_price

\* C8 (Spec): no job has two runs in flight.
C8_OneRunPerJob == \A j \in Jobs : instances[j] <= 1

\* the three jobs in flight together, the scheduler still holding them, so
\* that a tick of each falls on its run in flight
C8_Witness ==
    /\ \A j \in Jobs : instances[j] = 1 /\ pc[j] # "idle"
    /\ jobs = Jobs

\* C9 (Spec): a step in which a run of a job fails (it ends with an ERROR row
\* logged) leaves the scheduler as it was, running with the same jobs, and
\* leaves none of that job's runs in flight, so that the job's next tick is
\* submitted; the runs of the other jobs are not touched.
C9_FailureIsContained ==
    [][(logs' # <<>> /\ Head(logs') = "ERROR")
         => /\ running' = running
            /\ jobs' = jobs
            /\ \E f \in Jobs :
                 /\ pc[f] # "idle"
                 /\ pc'[f] = "idle"
                 /\ instances'[f] = 0
                 /\ f \in jobs' => Submit(f)'
                 /\ \A k \in Jobs \ {f} :
                      pc'[k] = pc[k] /\ instances'[k] = instances[k]]_vars

\* a run has just failed: the engine is running, holds its three jobs, the
\* failed job can be submitted again and another job's run is still in flight
C9_Witness ==
    /\ logs # <<>>
    /\ Head(logs) = "ERROR"
    /\ running
    /\ jobs = Jobs
    /\ \E f \in Jobs : Submit(f) /\ \E k \in Jobs \ {f} : pc[k] # "idle"

\* C10 (Spec): start() called while the engine is running logs one WARN row
\* and changes nothing else: the jobs held, the start time, the running flag,
\* the runs in flight and the store are as before.
C10_StartIsIdempotent ==
    [][(running /\ start)
       => /\ logs' = <<"WARN">>
          /\ UNCHANGED <<running, start_time, jobs, instances, pc, loc, store,
                         settings, nops, closes, tallies>>]_vars

\* start() has just been called on a running engine with a run in flight
C10_Witness ==
    /\ logs = <<"WARN">>
    /\ running
    /\ start_time = 1
    /\ \E j \in Jobs : instances[j] = 1

\* C11 (Spec): a step of stop() touches no run in flight and nothing of the
\* store; and while the engine is not running no run begins: no job's count of
\* runs in flight goes up and no idle job leaves idle.
C11_StopCancelsFutureRunsOnly ==
    [][/\ (running /\ ~running')
          => UNCHANGED <<instances, pc, loc, store, tallies>>
       /\ (~running /\ ~running')
          => \A j \in Jobs :
               /\ instances'[j] <= instances[j]
               /\ pc[j] = "idle" => pc'[j] = "idle"]_vars

\* the engine was stopped with a sniper run in flight, and that run has just
\* recorded its position and ended with its closing log
C11_Witness ==
    /\ ~running
    /\ start_time = 1
    /\ logs = <<"TRADE", "INFO">>
    /\ pc["sniper"] = "idle"
    /\ trades # <<>>

\* C12 (SpecClock): a start() of a stopped engine leaves the scheduler with
\* exactly the three jobs, the sniper due at once and the researcher and the
\* price updater due one interval of their own later; a run of a job begins
\* only once the job is due, and no time passes while a job is due.
C12_StartSchedulesThreeJobs ==
    [][/\ (~running /\ running')
          => /\ jobs' = {"sniper", "researcher", "price_updater"}
             /\ next_run_time'["sniper"] = now'
             /\ next_run_time'["researcher"] = now' + 600
             /\ next_run_time'["price_updater"] = now' + 60
       /\ \A j \in Jobs :
            instances'[j] > instances[j]
            => j \in jobs /\ next_run_time[j] <= now
       /\ now' > now => \A j \in jobs : now < next_run_time[j]]_vars

\* the engine was started some time after construction and, no time having
\* passed since, the sniper's first run is in flight while the other two jobs
\* still wait their whole interval
C12_Witness ==
    /\ running
    /\ now > 0
    /\ instances = [j \in Jobs |-> IF j = "sniper" THEN 1 ELSE 0]
    /\ next_run_time["researcher"] = now + Interval("researcher")
    /\ next_run_time["price_updater"] = now + Interval("price_updater")

\* the close_trade call a step has just made, if it has made one
Closing(i) ==
    /\ Len(closes') = Len(closes) + 1
    /\ closes'[Len(closes')].trade_id = i

\* C13 as stated (SpecStore): close_trade on an open position with exit price
\* x sets the status to closed, stores pnl = (x - entry_price) * size, adds
\* x * size to the balance and (x - entry_price) * size to total_pnl.
C13_CloseAsStated ==
    [][\A i \in DOMAIN trades :
         (trades[i].status = "open" /\ Closing(i))
         => LET x == closes'[Len(closes')].exit_price
                pnl == RMul(RSub(x, trades[i].entry_price), trades[i].size)
            IN  /\ trades'[i].status = "closed"
                /\ trades'[i].pnl = pnl
                /\ balance' = RAdd(balance, RMul(x, trades[i].size))
                /\ total_pnl' = RAdd(total_pnl, pnl)]_vars

\* C13 (SpecStore): close_trade on an open position with exit price x sets the
\* status to closed and current_price to x, stores pnl = (x - entry_price) *
\* size rounded to 4 decimals, adds exactly x * size to the balance and exactly
\* (x - entry_price) * size, unrounded, to total_pnl; and after opening 20
\* shares at 0.5 for 10 from a balance of 100 and closing them at 0.6 the
\* balance is 102 and the realized P&L is 2.
C13_CloseTrade ==
    /\ []((/\ Len(trades) = 1
           /\ trades[1].entry_price = Pct(50)
           /\ trades[1].size = R(20, 1)
           /\ closes = <<[trade_id |-> 1, exit_price |-> Pct(60)]>>)
          => /\ balance = R(102, 1)
             /\ total_pnl = R(2, 1)
             /\ trades[1].pnl = R(2, 1)
             /\ trades[1].status = "closed")
    /\ [][\A i \in DOMAIN trades :
            (trades[i].status = "open" /\ Closing(i))
            => LET x == closes'[Len(closes')].exit_price
                   pnl == RMul(RSub(x, trades[i].entry_price), trades[i].size)
               IN  /\ trades'[i].status = "closed"
                   /\ trades'[i].current_price = x
                   /\ trades'[i].pnl = Round(pnl, 10000)
                   /\ balance' = RAdd(balance, RMul(x, trades[i].size))
                   /\ total_pnl' = RAdd(total_pnl, pnl)
                   /\ \A k \in DOMAIN trades \ {i} : trades'[k] = trades[k]]_vars

\* a position whose P&L has more than 4 decimals (16.67 shares bought at 0.6)
\* has been closed below its entry, the other position staying open
C13_Witness ==
    /\ Len(trades) = 2
    /\ Len(closes) = 1
    /\ trades[closes[1].trade_id].status = "closed"
    /\ trades[closes[1].trade_id].entry_price = Pct(60)
    /\ trades[closes[1].trade_id].size = R(50, 3)
    /\ closes[1].exit_price = Pct(50)
    /\ trades[closes[1].trade_id].pnl = R(-16667, 10000)

\* a step that writes to rows of the trades table, neither inserting nor closing
Refreshing ==
    /\ Len(trades') = Len(trades)
    /\ closes' = closes
    /\ trades' # trades

\* C14 as stated (SpecStore): a refresh of an open position sets current_price
\* to the quote and pnl to (new_price - entry_price) * size, and changes
\* nothing else.
C14_RefreshAsStated ==
    [][Refreshing
       => /\ balance' = balance
          /\ total_pnl' = total_pnl
          /\ \E i \in DOMAIN trades, p \in StorePrices :
               /\ trades[i].status = "open"
               /\ trades' =
                    [trades EXCEPT
                       ![i].current_price = p,
                       ![i].pnl = RMul(RSub(p, trades[i].entry_price),
                                       trades[i].size)]]_vars

\* C14 (SpecStore): a refresh of an open position sets current_price to the
\* quote and pnl to (new_price - entry_price) * size rounded to 4 decimals,
\* whatever pnl was stored before, and leaves the balance, total_pnl, the
\* position's other columns and every other position as they were.
C14_RefreshFrame ==
    [][Refreshing
       => /\ balance' = balance
          /\ total_pnl' = total_pnl
          /\ \E i \in DOMAIN trades, p \in StorePrices :
               /\ trades[i].status = "open"
               /\ trades' =
                    [trades EXCEPT
                       ![i].current_price = p,
                       ![i].pnl = Round(RMul(RSub(p, trades[i].entry_price),
                                             trades[i].size), 10000)]]_vars

\* an open position of 16.67 shares bought at 0.6, refreshed to 0.2, beside
\* another position
C14_Witness ==
    /\ Len(trades) = 2
    /\ \E i \in DOMAIN trades :
         /\ trades[i].status = "open"
         /\ trades[i].entry_price = Pct(60)
         /\ trades[i].size = R(50, 3)
         /\ trades[i].current_price = Pct(20)
         /\ trades[i].pnl = R(-66667, 10000)

\* C15: a NO recommendation with allow_shorting false is decided as a YES
\* trade: side YES, market price yes_price, edge (p - yes_price) * 100, and it
\* trades exactly when the ordinary gates (confidence >= 10, time horizon, risk
\* filter on those values) pass.  For p = 0.70 and yes_price = 0.55 the YES
\* edge is 15; for the redirected p = 0.30, yes_price = 0.55 the edge is -25
\* and grind and balanced do not trade.
C15_NoIsRedirectedToYes ==
    calc.fn = "Decide" =>
        LET a == calc.analysis
            r == calc.result
            p == Pct(a.probability)
            yes_price == Pct(calc.quote[1])
            yes_edge == RMul(RSub(p, yes_price), R(100, 1))
            redirected == a.side = "NO" /\ calc.st.allow_shorting = "false"
        IN  /\ redirected =>
                /\ r.side = "YES"
                /\ r.market_price = yes_price
                /\ r.edge = yes_edge
                /\ r.verdict = "trade" <=>
                      /\ a.confidence >= 10
                      /\ _check_time_horizon(calc.end, calc.st.max_days)
                      /\ _apply_risk_filter(a.confidence, yes_edge, yes_price, p,
                             calc.st.mode, R(calc.st.risk_multiplier, 10)).ok
            /\ a.side = "YES" /\ a.probability = 70 /\ calc.quote[1] = 55
                 => r.edge = R(15, 1)
            /\ redirected /\ a.probability = 30 /\ calc.quote[1] = 55
                 => /\ r.edge = R(-25, 1)
                    /\ calc.st.mode \in {"grind", "balanced"} => r.verdict # "trade"

\* a redirected NO recommendation that goes on to trade as YES
C15_Witness ==
    /\ calc.fn = "Decide"
    /\ calc.analysis.side = "NO"
    /\ calc.st.allow_shorting = "false"
    /\ calc.st.mode = "balanced"
    /\ calc.result.verdict = "trade"
    /\ calc.result.side = "YES"

\* a NO recommendation that reaches the edge computation on the NO side
\* (shorting allowed, not skipped for confidence or time horizon)
NoTrade ==
    /\ calc.fn = "Decide"
    /\ calc.analysis.side = "NO"
    /\ calc.st.allow_shorting = "true"
    /\ calc.result.verdict # "skip"

C17_KellyFraction ==
    calc.fn = "_calculate_kelly" =>
        LET p == calc.p
            m == calc.market_price
            b == RSub(RDiv(One, m), One)
            f == RDiv(RSub(RMul(b, p), RSub(One, p)), b)
        IN  /\ RLe(m, Zero) \/ RLe(One, m) => calc.result = Zero
            /\ RLt(Zero, m) /\ RLt(m, One) =>
                   calc.result = IF RLt(f, Zero) THEN Zero
                                 ELSE IF RLt(R(1, 2), f) THEN R(1, 2)
                                 ELSE f
            /\ RLe(Zero, calc.result) /\ RLe(calc.result, R(1, 2))
            /\ p = R(6, 10) /\ m = R(1, 2) => calc.result = R(2, 10)

\* the fraction of the example: p = 0.6 at price 0.5 gives 0.2, unclamped
C17_Witness ==
    /\ calc.fn = "_calculate_kelly"
    /\ calc.p = Pct(60)
    /\ calc.market_price = Pct(50)
    /\ calc.result = R(1, 5)

\* C18: the risk filter approves in grind mode exactly when confidence >= 85
\* and edge >= 4, and in balanced mode exactly when confidence >= 70 and
\* edge >= 8, boundary values included; grind rejects confidence 80 with edge 5
\* and accepts confidence 90 with edge 5.
C18_GrindAndBalancedGates ==
    calc.fn = "_apply_risk_filter" =>
        /\ calc.mode = "grind" =>
               (calc.result.ok <=>
                    calc.confidence >= 85 /\ RLe(R(4, 1), calc.edge))
        /\ calc.mode = "balanced" =>
               (calc.result.ok <=>
                    calc.confidence >= 70 /\ RLe(R(8, 1), calc.edge))
        /\ calc.mode = "grind" /\ calc.edge = R(5, 1) =>
               /\ calc.confidence = 80 => ~calc.result.ok
               /\ calc.confidence = 90 => calc.result.ok

\* grind approves at its boundary: confidence 85, edge 4
C18_Witness ==
    /\ calc.fn = "_apply_risk_filter"
    /\ calc.mode = "grind"
    /\ calc.confidence = 85
    /\ calc.edge = R(4, 1)
    /\ calc.result.ok

\* C19: in moonshot mode the risk filter approves exactly when
\* market_price <= 0.20 and p >= 2 * market_price, whatever confidence and edge
\* it is given.
C19_MoonshotGate ==
    calc.fn = "_apply_risk_filter" /\ calc.mode = "moonshot" =>
        (calc.result.ok <=>
             /\ RLe(calc.market_price, R(20, 100))
             /\ RLe(RMul(R(2, 1), calc.market_price), calc.ai_prob))

\* moonshot approves at both boundaries (price 0.20, p = 0.40) with the lowest
\* confidence and a negative edge
C19_Witness ==
    /\ calc.fn = "_apply_risk_filter"
    /\ calc.mode = "moonshot"
    /\ calc.market_price = Pct(20)
    /\ calc.ai_prob = Pct(40)
    /\ calc.confidence = 5
    /\ calc.edge = R(-25, 1)
    /\ calc.result.ok

\* the position-size cap of a risk mode
ModeCap(mode) ==
    CASE mode = "grind" -> R(5, 100)
      [] mode = "balanced" -> R(15, 100)
      [] mode = "moonshot" -> R(25, 100)

\* C20: for every approved trade the size fraction returned is
\* min(min(kelly, cap) * risk_multiplier, cap) with cap 0.05 (grind), 0.15
\* (balanced), 0.25 (moonshot); so for every risk multiplier in [0.1, 3.0] it
\* is at least 0 and never above the cap of the mode.
C20_SizeIsCapped ==
    calc.fn = "_apply_risk_filter" /\ calc.result.ok =>
        LET cap == ModeCap(calc.mode)
            kelly == _calculate_kelly(calc.ai_prob, calc.market_price)
            capped_size == IF RLt(kelly, cap) THEN kelly ELSE cap
            scaled == RMul(capped_size, calc.risk_mult)
        IN  /\ RLe(R(1, 10), calc.risk_mult) /\ RLe(calc.risk_mult, R(3, 1))
            /\ calc.result.size = IF RLt(scaled, cap) THEN scaled ELSE cap
            /\ RLe(Zero, calc.result.size)
            /\ RLe(calc.result.size, cap)

\* the final cap acts: a balanced trade with a Kelly fraction of 1/9, below the
\* cap, and multiplier 3.0 would be 1/3 and is sized at 0.15
C20_Witness ==
    /\ calc.fn = "_apply_risk_filter"
    /\ calc.result.ok
    /\ calc.mode = "balanced"
    /\ calc.risk_mult = R(3, 1)
    /\ _calculate_kelly(calc.ai_prob, calc.market_price) = R(1, 9)
    /\ calc.result.size = R(15, 100)

\* the rows of a level among the rows a step appended
Rows(l, level) == {i \in DOMAIN l : l[i] = level}

\* what a step that drops a filtered candidate does: one SIGNAL row, no ERROR
\* row, the store as it was, and no run newly on its way to a debit
SignalOnly ==
    /\ Cardinality(Rows(logs', "SIGNAL")) = 1
    /\ Rows(logs', "ERROR") = {}
    /\ store' = store
    /\ {j \in Jobs : pc'[j] \in {"deduct", "deduct_write", "add_trade"}}
           \subseteq Opening

\* the signals the risk-mode gate turns down under the stored settings
FilteredSignals ==
    {sig \in Signals :
        /\ sig.has
        /\ Decide(sig.analysis, sig.quote, sig.end, DefaultSettings).verdict
               = "filtered"}

\* C21: a candidate that fails the risk-mode gate produces no trade: the
\* decision returns without raising, appends one SIGNAL log row, and leaves
\* balance, total_pnl and the ledger unchanged; and a SIGNAL row is written by
\* no other kind of step.
C21_FilteredIsLoggedOnly ==
    [][/\ \A j \in Strategies :
            /\ pc[j] = (IF j = "sniper" THEN "evaluate" ELSE "research")
            /\ loc'[j] # loc[j]
            /\ settings = DefaultSettings
            => \A m \in Markets, sig \in FilteredSignals :
                   (IF j = "sniper" THEN SniperEvaluate(m, sig)
                    ELSE ResearcherAnalyze(TRUE, sig))
                   => SignalOnly
       /\ Rows(logs', "SIGNAL") # {} => SignalOnly]_vars

\* the researcher has dropped a filtered candidate, with a position on the
\* ledger, and goes on with its run
C21_Witness ==
    /\ logs = <<"SIGNAL">>
    /\ pc["researcher"] = "research"
    /\ Len(trades) = 1

\* a resolution date that fromisoformat reads
Parses(end) == end.kind \in {"date", "naive"}

\* C22 as stated: the time-horizon gate rejects a market exactly when its
\* resolution date parses and lies more than max_days after now; an absent or
\* unparsable date passes.
C22_HorizonGate ==
    /\ calc.fn = "_check_time_horizon" =>
           (~calc.result <=> Parses(calc.end) /\ calc.end.days > calc.max_days)
    /\ calc.fn = "Decide" /\ calc.analysis.confidence >= 10 =>
           (Parses(calc.end) /\ calc.end.days > calc.st.max_days
                => calc.result.verdict = "skip")

\* what a position cost when it was opened
Cost(t) == RMul(t.entry_price, t.size)

\* C23: a trade whose dollar size (balance * size fraction) is below 1 is
\* rejected before any debit, balance and ledger staying as they are; so every
\* debit is of at least 1 dollar and every position on the ledger was opened
\* at a cost of at least 1 dollar.
C23_MinimumTradeSize ==
    /\ [](\A i \in DOMAIN trades : RLe(One, Cost(trades[i])))
    /\ [](\A j \in Opening : RLe(One, loc[j].amount))
    /\ [][/\ RLt(balance', balance) => RLe(One, RSub(balance, balance'))
          /\ pc["sniper"] = "evaluate" /\ loc'["sniper"] # loc["sniper"] =>
               \A m \in Markets, sig \in Signals :
                   /\ sig.has
                   /\ LET d == Decide(sig.analysis, sig.quote, sig.end, settings)
                      IN  /\ d.verdict = "trade"
                          /\ RLt(RMul(balance, d.size_pct), One)
                   /\ SniperEvaluate(m, sig)
                   => /\ store' = store
                      /\ pc'["sniper"] \notin {"deduct", "deduct_write", "add_trade"}
                      /\ Rows(logs', "ERROR") = {}]_vars

\* the smallest trade that is accepted: grind at multiplier 0.2 sizes 1 dollar
\* of a balance of 100, and the position is on the ledger
C23_Witness ==
    /\ Len(trades) = 1
    /\ Cost(trades[1]) = One
    /\ balance = R(99, 1)

\* C24: when the attempted debit exceeds the balance the trade is rejected
\* without raising: deduct_from_balance returns False (one WARN row, no ERROR
\* row), no position is inserted, balance and total_pnl are unchanged, the
\* engine keeps running, and the job goes on with the items it has left (the
\* sniper with none left writes its closing row and returns).
C24_InsufficientFundsIsSkipped ==
    [][\A j \in Strategies :
         (pc[j] = "deduct" /\ pc'[j] # "deduct" /\ RLt(balance, loc[j].amount))
         => /\ store' = store
            /\ Cardinality(Rows(logs', "WARN")) = 1
            /\ Rows(logs', "ERROR") = {}
            /\ running' = running /\ jobs' = jobs
            /\ IF j = "sniper" /\ loc[j].left = 0
               THEN /\ pc'[j] = "idle"
                    /\ logs' = <<"WARN", "INFO">>
               ELSE /\ pc'[j] = (IF j = "sniper" THEN "evaluate" ELSE "research")
                    /\ instances'[j] = instances[j]
                    /\ loc'[j] = Cleared(loc[j])
                    /\ loc'[j].cands = loc[j].cands]_vars

\* the researcher's debit of 60 has been refused at a balance of 40, and the
\* run goes on with the candidate it has left
C24_Witness ==
    /\ logs = <<"WARN">>
    /\ balance = R(40, 1)
    /\ Len(trades) = 1
    /\ pc["researcher"] = "research"
    /\ loc["researcher"].cands = <<"m2">>

\* C25: the matcher's keywords are at most the first 5 tokens of the
\* lower-cased headline that are alphabetic, of length >= 3 and not stop words;
\* it returns at most 5 markets, only markets whose question holds a keyword as
\* a substring, in descending order of keyword hits, markets of equal score in
\* input order, and no market left out ranks before a returned one; a headline
\* without keywords matches nothing.  The headline "Federal Reserve raises
\* interest rates" has the keywords federal, reserve, raises, interest, rates
\* and gives "Fed interest rate decision ..." a score of at least 1.
C25_Matcher ==
    calc.fn = "_match_headline_to_markets" =>
        LET kws == calc.keywords
            res == calc.result
            qs == calc.markets
            kept == SelectSeq(findall(lower(calc.headline)),
                              LAMBDA w : w \notin STOP_WORDS)
            hits(i) == Cardinality({k \in 1..Len(kws) :
                                      Contains(kws[k], lower(qs[i]))})
            before(i, j) == hits(i) > hits(j) \/ (hits(i) = hits(j) /\ i < j)
            returned == {res[a] : a \in 1..Len(res)}
        IN  /\ Len(kws) <= 5
            /\ Len(kws) = (IF Len(kept) < 5 THEN Len(kept) ELSE 5)
            /\ \A k \in 1..Len(kws) :
                   /\ kws[k] = kept[k]
                   /\ Len(kws[k]) >= 3
                   /\ \A c \in 1..Len(kws[k]) :
                          \E n \in 1..26 : Alphabet[n] = kws[k][c]
                   /\ kws[k] \notin STOP_WORDS
            /\ Len(res) <= 5
            /\ returned \subseteq 1..Len(qs)
            /\ \A a \in 1..Len(res) : hits(res[a]) >= 1
            /\ \A a, b \in 1..Len(res) : a < b => before(res[a], res[b])
            /\ \A i \in (1..Len(qs)) \ returned :
                   hits(i) > 0 =>
                       /\ Len(res) = 5
                       /\ \A a \in 1..Len(res) : before(res[a], i)
            /\ kws = <<>> => res = <<>>
            /\ calc.headline = Headlines[1] =>
                   /\ Len(kws) = 5
                   /\ \A i \in 1..Len(qs) : qs[i] = Questions[1] => hits(i) >= 1
                   /\ qs # <<>> /\ qs[1] = Questions[1] => 1 \in returned

\* seven markets score for a headline of seven tokens: the five returned are
\* the two of score 3, the two of score 2 and the first of the three of score 1
C25_Witness ==
    /\ calc.fn = "_match_headline_to_markets"
    /\ calc.headline = Headlines[4]
    /\ Len(calc.markets) = 7
    /\ Len(calc.keywords) = 5
    /\ calc.result = <<3, 6, 2, 5, 1>>

\* C26: between two resets of the headline-hash cache no headline hash is handed
\* to the matcher in more than one sniper run, also when an earlier run that
\* evaluated the headline ended in the job's except clause
C26_NoHeadlineEvaluatedTwice ==
    \A p \in evaluated, q \in evaluated : p[1] = q[1] => p[2] = q[2]

\* the headlines the latest sniper run has handed to the matcher
EvaluatedInRun == {p \in evaluated : p[2] = cycle.run}

\* C27: one sniper run evaluates at most 5 headlines and at most 2 matched
\* markets per headline, so it makes at most 10 estimator calls and opens at
\* most 10 positions
C27_SniperRunIsCapped ==
    /\ Cardinality(EvaluatedInRun) <= 5
    /\ cycle.matched <= 2
    /\ cycle.calls + cycle.matched <= 2 * Cardinality(EvaluatedInRun)
    /\ cycle.calls <= 10
    /\ cycle.trades_made <= cycle.calls
    /\ Len(trades) - cycle.opened_before = cycle.trades_made
    /\ cycle.trades_made <= 10

\* a run over 5 headlines with 2 markets each that opened a position on every
\* one of them has ended, a sixth headline left aside
C27_Witness ==
    /\ pc["sniper"] = "idle"
    /\ cycle.calls = 10
    /\ Len(trades) - cycle.opened_before = 10
    /\ Cardinality(EvaluatedInRun) = 5
    /\ 1 \notin _processed_hashes

\* the rows the ledger has gained since the latest researcher run began
OpenedInSurvey == (survey.opened_before + 1)..Len(trades)
\* the markets that had an open position when the latest run began
HeldAtSelection ==
    {trades[i].market_id : i \in {k \in 1..survey.opened_before :
                                     trades[k].status = "open"}}

\* C28: a researcher run takes as candidates only markets without an open
\* position at selection, at most 10 of them, researches at most the first 3,
\* and so opens at most 3 positions, none on a market held at selection
C28_ResearcherRunIsCapped ==
    /\ Len(survey.candidate_markets) <= 10
    /\ \A i \in DOMAIN survey.candidate_markets :
          survey.candidate_markets[i] \notin HeldAtSelection
    /\ Len(survey.researched) <= 3
    /\ \A i \in DOMAIN survey.researched :
          survey.researched[i] = survey.candidate_markets[i]
    /\ Cardinality(OpenedInSurvey) <= 3
    /\ \A k \in OpenedInSurvey :
          /\ trades[k].market_id \notin HeldAtSelection
          /\ \E i \in DOMAIN survey.researched :
                trades[k].market_id = survey.researched[i]

\* a run that found three positions held and more than ten markets free has
\* opened a position on each of the three it researched, and has ended
C28_Witness ==
    /\ pc["researcher"] = "idle"
    /\ Cardinality(HeldAtSelection) = 3
    /\ Len(survey.candidate_markets) = 9
    /\ Len(survey.researched) = 3
    /\ Cardinality(OpenedInSurvey) = 3

\* the exit rule on the ledger's row i as stored
AboveTakeProfit(i) ==
    TakeProfit([id |-> i, current_price |-> trades[i].current_price,
                pnl |-> trades[i].pnl])

\* C29: every researcher run re-evaluates the open positions, also a run that
\* finds no candidate market: when such a run ends, every position that was
\* open with a stored return above 20 percent has been closed at its stored
\* current price
C29_RunWithoutCandidateReevaluates ==
    [][ survey'.run = survey.run + 1 /\ survey'.candidate_markets = <<>>
        => \A i \in DOMAIN trades :
              trades[i].status = "open" /\ AboveTakeProfit(i)
              => /\ trades'[i].status = "closed"
                 /\ trades'[i].current_price = trades[i].current_price ]_vars

\* the updater handles the next listed position in this step
UpdaterStep ==
    /\ pc["price_updater"] = "refresh"
    /\ loc["price_updater"].snap # <<>>
    /\ \/ pc'["price_updater"] = "idle"
       \/ loc'["price_updater"].snap = Tail(loc["price_updater"].snap)

\* C30: in a price-updater run an open position without a token, or for which
\* no quote came, is left as it is; the run goes on with the remaining
\* positions, and nothing is logged as an error
C30_MissingQuoteIsSkipped ==
    [][ ( /\ UpdaterStep
          /\ \/ /\ trades[Head(loc["price_updater"].snap)].token_id = ""
                /\ \E h \in BOOLEAN, mid \in Mids : UpdaterRefresh(h, mid)
             \/ \E mid \in Mids : UpdaterRefresh(FALSE, mid) )
        => /\ trades' = trades
           /\ logs' = <<>>
           /\ IF Tail(loc["price_updater"].snap) = <<>>
              THEN pc'["price_updater"] = "idle"
              ELSE /\ pc'["price_updater"] = "refresh"
                   /\ loc'["price_updater"].snap = Tail(loc["price_updater"].snap)
           /\ running' = running /\ jobs' = jobs ]_vars

\* the run has passed over the newer position, which has no token and stands
\* as it was opened, and has the older one still to refresh
C30_Witness ==
    /\ pc["price_updater"] = "refresh"
    /\ loc["price_updater"].snap = <<1>>
    /\ Len(trades) = 2
    /\ trades[2].status = "open"
    /\ trades[2].token_id = ""
    /\ trades[2].current_price = trades[2].entry_price
    /\ trades[1].status = "open"
    /\ trades[1].token_id # ""

\* the step deals with the sniper's next pair, or the researcher's next candidate
SniperItemStep ==
    /\ pc["sniper"] = "evaluate"
    /\ pc'["sniper"] # "evaluate" \/ loc'["sniper"].left # loc["sniper"].left
ResearcherItemStep ==
    /\ pc["researcher"] = "research"
    /\ loc["researcher"].cands # <<>>
    /\ pc'["researcher"] # "research" \/ loc'["researcher"].cands # loc["researcher"].cands

\* the step deals with an item for which no analysis came, or a non-conforming
\* one, or no research result
ItemFailed ==
    \/ /\ SniperItemStep
       /\ \E m \in Markets, reply \in {"none", "mistyped"}, sig \in Signals :
             SniperReply(m, reply, sig)
    \/ /\ ResearcherItemStep
       /\ \/ \E sig \in Signals : ResearcherReply(FALSE, "none", sig)
          \/ \E reply \in {"none", "mistyped"}, sig \in Signals :
                ResearcherReply(TRUE, reply, sig)

\* C31: an item whose analysis is absent or non-conforming, or whose research
\* came back empty, yields no trade; the run goes on with the remaining items
\* of the cycle, and nothing is logged as a job-level error
C31_ItemFailureIsContained ==
    [][ ItemFailed
        => /\ store' = store
           /\ Rows(logs', "ERROR") = {}
           /\ SniperItemStep /\ loc["sniper"].left > 1
              => pc'["sniper"] = "evaluate" /\ loc'["sniper"].left = loc["sniper"].left - 1
           /\ ResearcherItemStep /\ Len(loc["researcher"].cands) > 1
              => /\ pc'["researcher"] = "research"
                 /\ loc'["researcher"].cands = Tail(loc["researcher"].cands) ]_vars

\* C32: when the estimator's credential is missing, the strategy job that
\* needs the estimator logs the error (the ai property's row and the job's own)
\* and gives up its current cycle only: the scheduler runs on with the same
\* jobs, the job's next tick is submitted, and the price updater's run, the
\* other strategy's run and the store are as they were
C32_MissingCredentialEndsTheCycleOnly ==
    [][ logs' = <<"ERROR", "ERROR">>
        => /\ running' = running
           /\ jobs' = jobs
           /\ store' = store
           /\ \E f \in Strategies :
                 /\ pc[f] # "idle"
                 /\ pc'[f] = "idle"
                 /\ f \in jobs' => Submit(f)'
                 /\ \A k \in Jobs \ {f} :
                       /\ pc'[k] = pc[k]
                       /\ loc'[k] = loc[k]
                       /\ instances'[k] = instances[k] ]_vars

\* a strategy's cycle has just ended on the missing credential while the price
\* updater is in the middle of a run; the engine runs and holds its three jobs
C32_Witness ==
    /\ logs = <<"ERROR", "ERROR">>
    /\ running
    /\ jobs = Jobs
    /\ pc["price_updater"] = "refresh"
    /\ \E f \in Strategies : pc[f] = "idle" /\ Submit(f)

\* what a decision on signal sig comes to under the settings st and the balance
\* b: the decision, and whether a position is to be opened on it
Outcome(sig, st, b) ==
    LET d == Decide(sig.analysis, sig.quote, sig.end, st)
    IN  [d |-> d,
         opens |-> sig.has /\ d.verdict = "trade" /\ ~RLt(RMul(b, d.size_pct), One),
         signal |-> sig.has /\ d.verdict = "filtered"]

\* C33: a trade decision is made on the settings as they stand when it is
\* made, whatever they were when the engine or the run started: the step that
\* decides on a pair goes on to the debit with the decision the stored mode,
\* max_days, allow_shorting and risk_multiplier give, or drops the pair as
\* they say
C33_DecisionUsesStoredSettings ==
    [][ SniperItemStep /\ Rows(logs', "ERROR") = {}
        => \E sig \in Signals :
              LET o == Outcome(sig, settings, balance)
              IN  IF o.opens
                  THEN /\ pc'["sniper"] = "deduct"
                       /\ loc'["sniper"].d = o.d
                       /\ loc'["sniper"].amount = RMul(balance, o.d.size_pct)
                  ELSE /\ pc'["sniper"] # "deduct"
                       /\ (Rows(logs', "SIGNAL") # {}) = o.signal ]_vars

\* after the operator raised max_days to 60 and switched to moonshot with
\* shorting, the sniper goes to the debit with a moonshot decision on the NO
\* side
C33_Witness ==
    /\ pc["sniper"] = "deduct"
    /\ settings.max_days = 60
    /\ settings.mode = "moonshot"
    /\ loc["sniper"].d.mode = "moonshot"
    /\ loc["sniper"].d.side = "NO"

\* C34: no job holds the store's lock while it waits on a gateway: the lock is
\* held only inside a store operation's block, so that a job about to write
\* finds the lock free whenever no other job is inside such a block, however
\* many jobs wait on gateways
C34_NoLockAcrossGatewayCalls ==
    /\ \A j \in Jobs : pc[j] = "gateway" => lock # j
    /\ lock # "free" => pc[lock] = "locked"
    /\ \A k \in Jobs :
          /\ pc[k] = "ready"
          /\ Head(loc[k].cands) = "write"
          /\ \A j \in Jobs \ {k} : pc[j] # "locked"
          => lock = "free"

\* the sniper and the researcher both wait on a gateway while the price
\* updater is inside update_trade's block
C34_Witness ==
    /\ pc["sniper"] = "gateway"
    /\ pc["researcher"] = "gateway"
    /\ pc["price_updater"] = "locked"
    /\ lock = "price_updater"

\* the closed rows of the ledger get_stats was called on, and those with a gain
ClosedRows == {i \in DOMAIN calc.rows : calc.rows[i].status = "closed"}
WinningRows == {i \in ClosedRows : RLt(Zero, calc.rows[i].pnl)}

\* C35 as stated: get_stats reports win_rate = winning_closed / total_closed *
\* 100, and 0 without a closed position; open positions count for neither
C35_WinRateAsStated ==
    calc.fn = "get_stats"
    => /\ calc.result.winning_trades = Cardinality(WinningRows)
       /\ calc.result.closed_trades = Cardinality(ClosedRows)
       /\ calc.result.win_rate =
             IF ClosedRows = {} THEN Zero
             ELSE R(Cardinality(WinningRows) * 100, Cardinality(ClosedRows))

\* C35: get_stats reports win_rate = winning_closed / total_closed * 100
\* rounded to one decimal, and 0 without a closed position; winning_closed
\* counts the closed positions with pnl > 0, open positions count for neither
C35_WinRate ==
    calc.fn = "get_stats"
    => /\ calc.result.winning_trades = Cardinality(WinningRows)
       /\ calc.result.closed_trades = Cardinality(ClosedRows)
       /\ calc.result.win_rate =
             IF ClosedRows = {} THEN Zero
             ELSE Round(R(Cardinality(WinningRows) * 100, Cardinality(ClosedRows)), 10)

\* one of three closed positions has a gain: the rate reported is 33.3
C35_Witness ==
    /\ calc.fn = "get_stats"
    /\ Cardinality(ClosedRows) = 3
    /\ Cardinality(WinningRows) = 1
    /\ calc.result.win_rate = R(333, 10)

\* C36: the position a strategy job records has size > 0, and its cost basis
\* entry_price * size is the dollar amount the job had debited for it, on the
\* YES and on the NO side and in every risk mode
C36_CostBasisIsTheDebit ==
    [][\A j \in Strategies :
          pc[j] = "add_trade" /\ Len(trades') = Len(trades) + 1
          => LET t == trades'[Len(trades')]
             IN  /\ RLt(Zero, t.size)
                 /\ RMul(t.entry_price, t.size) = loc[j].amount
                 /\ t.current_price = t.entry_price]_vars

\* a NO position bought in moonshot mode and a YES position bought in another
\* mode are both on the ledger
C36_Witness ==
    /\ \E i \in DOMAIN trades :
          trades[i].side = "NO" /\ trades[i].mode = "moonshot"
    /\ \E i \in DOMAIN trades :
          trades[i].side = "YES" /\ trades[i].mode # "moonshot"

\* C38: in every state total_pnl is the sum of the stored pnl of the closed
\* positions; the open positions add nothing to it
C38_TotalPnlIsSumOfClosed ==
    total_pnl = SumPnl(trades, {i \in DOMAIN trades : trades[i].status = "closed"})

\* C39: at any time a market id has at most one open position, whichever of
\* the sniper and the researcher opened it and however their runs interleave
C39_OneOpenPositionPerMarket ==
    \A i, k \in DOMAIN trades :
        /\ trades[i].status = "open"
        /\ trades[k].status = "open"
        /\ trades[i].market_id = trades[k].market_id
        => i = k

\* C40: the amount a debit takes for a trade is at most the cap of the trade's
\* risk mode (0.05 grind, 0.15 balanced, 0.25 moonshot) times the balance held
\* just before that debit, also when another job has changed the balance
\* since the trade was sized
C40_DebitWithinCapOfBalance ==
    [][\A j \in Strategies :
          pc[j] = "deduct_write" /\ pc'[j] = "add_trade"
          => RLe(loc[j].amount, RMul(ModeCap(loc[j].d.mode), balance))]_vars

\* C37: every position the engine opens has a strictly positive edge for the
\* side it is opened on, in every risk mode, also in moonshot with shorting
C37_EveryPositionHasPositiveEdge ==
    /\ \A i \in DOMAIN trades : RLt(Zero, trades[i].edge)
    /\ \A j \in Strategies :
          pc[j] \in {"deduct", "deduct_write", "add_trade"}
          => RLt(Zero, loc[j].d.edge)

====
